---- MODULE Spec2Model ----
(***************************************************************************)
(* A model of whisper.ihm: the VAD-driven segmenter (segmentByVAD), the    *)
(* hallucination filter (shouldSkipSegment and its helpers), the temporal  *)
(* deduplicator (deduplicateSegments) and the chunk loop of main.          *)
(*                                                                         *)
(* Strings are sequences of Unicode code points (Go runes); where the Go   *)
(* code works on bytes (len(s), s[i:j]) the model encodes to UTF-8 first.  *)
(* Durations count ticks of 1/Millisecond ms.                              *)
(***************************************************************************)
EXTENDS Integers, Sequences, FiniteSets, TLC

VARIABLES
    \* ---- segmentByVAD ----
    samplesLen,     \* len(samples)
    segPc,          \* "idle" | "start" | "loop" | "returned"
    f,              \* the loop's frame index
    inSpeech,
    speechStart,
    silenceCount,
    segments,       \* []rawSegment
    segResult,      \* the []audioSegment returned (<<>> stands for nil)
    segErr,         \* whether an error was returned
    vadInstance,    \* "nil" | "live": Vad.instance
    vadDestroyed,   \* number of ten_vad_destroy calls
    speechSeen,     \* history: some frame was classified as speech
    lastSpeech,     \* history: the last frame classified as speech, -1 if none
    speechRuns,     \* history: speech frames not within silenceGap frames of the one before
    bridged,        \* history: speech came back after silenceGap - 1 non-speech frames
    tracked,        \* history: one frame classified as speech; -1 none yet, -2 not tracking
    vadCreated,     \* history: number of handles ten_vad_create returned
    lateCalls       \* history: the calls made on the Vad after segmentByVAD returned

segVars == <<samplesLen, segPc, f, inSpeech, speechStart, silenceCount,
             segments, segResult, segErr, vadInstance, vadDestroyed, speechSeen,
             lastSpeech, speechRuns, bridged, tracked, vadCreated, lateCalls>>

\* ---- deduplicateSegments ----
VARIABLES
    dedupIn,        \* the argument: a sequence of transcriptSegment
    dedupOut,       \* the value returned
    dedupPc         \* "idle" | "called" | "returned"

dedupVars == <<dedupIn, dedupOut, dedupPc>>

\* ---- shouldSkipSegment ----
VARIABLES
    filterSeg,      \* the argument: a whisper.Segment (Text, NoSpeechProb, Tokens)
    filterSkip,     \* the value returned
    filterPc        \* "idle" | "called" | "returned"

filterVars == <<filterSeg, filterSkip, filterPc>>

\* ---- main ----
VARIABLES
    mainPc,         \* "idle" | "loop" | "process" | "done" | "exit"
    mainErr,        \* the error main exits on, "none" while there is none
    chunks,         \* what segmentByVAD returned
    chunkIdx,       \* position of the chunk loop
    mainSegments,   \* the segments slice of main
    written,        \* the segments written to the output
    delivered       \* history: every ASR segment handed to segmentCb, with its offset

mainVars == <<mainPc, mainErr, chunks, chunkIdx, mainSegments, written, delivered>>

\* ---- calls of the helper functions ----
VARIABLES
    callFn,         \* the function called, "none" when there is no call
    callArgs,       \* its arguments
    callRet,        \* the value returned
    callPc          \* "idle" | "called" | "returned"

callVars == <<callFn, callArgs, callRet, callPc>>

vars == <<segVars, dedupVars, filterVars, mainVars, callVars>>

SegIdle ==
    /\ samplesLen = 0 /\ segPc = "idle" /\ f = 0 /\ inSpeech = FALSE
    /\ speechStart = 0 /\ silenceCount = 0 /\ segments = <<>> /\ segResult = <<>>
    /\ segErr = FALSE /\ vadInstance = "nil" /\ vadDestroyed = 0 /\ speechSeen = FALSE
    /\ lastSpeech = -1 /\ speechRuns = 0 /\ bridged = FALSE /\ tracked = -2
    /\ vadCreated = 0 /\ lateCalls = <<>>

DedupIdle == dedupIn = <<>> /\ dedupOut = <<>> /\ dedupPc = "idle"

FilterIdle == filterSeg = <<>> /\ filterSkip = FALSE /\ filterPc = "idle"

CallIdle == callFn = "none" /\ callArgs = <<>> /\ callRet = <<>> /\ callPc = "idle"

MainIdle ==
    /\ mainPc = "idle" /\ mainErr = "none" /\ chunks = <<>> /\ chunkIdx = 0
    /\ mainSegments = <<>> /\ written = <<>> /\ delivered = <<>>

(***************************************************************************)
(* Strings: sequences of code points                                       *)
(***************************************************************************)
\* The sequences over S of length at most n.
SeqsUpTo(S, n) == UNION { [1..k -> S] : k \in 0..n }

\* unicode.IsSpace: the White_Space code points.
IsSpace(c) ==
    \/ c \in {9, 10, 11, 12, 13, 32, 133, 160, 5760, 8232, 8233, 8239, 8287, 12288}
    \/ (c >= 8192 /\ c <= 8202)

\* The number of bytes of a code point's UTF-8 encoding.
Utf8Len(c) == IF c < 128 THEN 1 ELSE IF c < 2048 THEN 2 ELSE IF c < 65536 THEN 3 ELSE 4

\* The UTF-8 bytes of one code point.
Utf8Rune(c) ==
    IF c < 128 THEN << c >>
    ELSE IF c < 2048 THEN << 192 + (c \div 64), 128 + (c % 64) >>
    ELSE IF c < 65536 THEN << 224 + (c \div 4096), 128 + ((c \div 64) % 64), 128 + (c % 64) >>
    ELSE << 240 + (c \div 262144), 128 + ((c \div 4096) % 64),
            128 + ((c \div 64) % 64), 128 + (c % 64) >>

\* The bytes of a Go string holding the code points s.
RECURSIVE Utf8(_)
Utf8(s) == IF s = <<>> THEN <<>> ELSE Utf8Rune(Head(s)) \o Utf8(Tail(s))

\* len(s) of a Go string: its length in bytes.
ByteLen(s) == Len(Utf8(s))

\* utf8.RuneCountInString
RuneCount(s) == Len(s)

RECURSIVE TrimLeft(_)
TrimLeft(s) == IF s # <<>> /\ IsSpace(Head(s)) THEN TrimLeft(Tail(s)) ELSE s

RECURSIVE TrimRight(_)
TrimRight(s) ==
    IF s # <<>> /\ IsSpace(s[Len(s)]) THEN TrimRight(SubSeq(s, 1, Len(s) - 1)) ELSE s

\* strings.TrimSpace
TrimSpace(s) == TrimRight(TrimLeft(s))

\* unicode.ToLower on the scripts of the lexicon: Basic Latin, Latin-1, Cyrillic.
ToLowerRune(c) ==
    IF c >= 65 /\ c <= 90 THEN c + 32
    ELSE IF c >= 192 /\ c <= 222 /\ c # 215 THEN c + 32
    ELSE IF c >= 1024 /\ c <= 1039 THEN c + 80
    ELSE IF c >= 1040 /\ c <= 1071 THEN c + 32
    ELSE IF c >= 1162 /\ c <= 1214 /\ c % 2 = 0 THEN c + 1
    ELSE c

\* strings.ToLower
ToLower(s) == [i \in 1..Len(s) |-> ToLowerRune(s[i])]

\* The index of the first occurrence of code point c in s, 0 if there is none.
RECURSIVE IndexFrom(_, _, _)
IndexFrom(s, c, i) ==
    IF i > Len(s) THEN 0 ELSE IF s[i] = c THEN i ELSE IndexFrom(s, c, i + 1)

IndexRune(s, c) == IndexFrom(s, c, 1)

\* strings.SplitN(s, sep, n) for a one-character separator and n >= 1.
RECURSIVE SplitN(_, _, _)
SplitN(s, sep, n) ==
    LET i == IndexRune(s, sep)
    IN  IF n <= 1 \/ i = 0
        THEN << s >>
        ELSE << SubSeq(s, 1, i - 1) >> \o SplitN(SubSeq(s, i + 1, Len(s)), sep, n - 1)

\* The decimal digits of n >= 0.
RECURSIVE Digits(_)
Digits(n) == IF n < 10 THEN << 48 + n >> ELSE Append(Digits(n \div 10), 48 + (n % 10))

\* fmt's %0<width>d of n >= 0.
RECURSIVE ZeroPad(_, _)
ZeroPad(s, width) == IF Len(s) >= width THEN s ELSE ZeroPad(<< 48 >> \o s, width)

(***************************************************************************)
(* Durations and their text form                                           *)
(***************************************************************************)
\* time.Millisecond, in the model's duration unit.
Millisecond == 4
Second == 1000 * Millisecond
Minute == 60 * Second
Hour == 60 * Minute

\* Duration.Milliseconds: the whole milliseconds of d, truncated toward zero.
Milliseconds(d) == IF d >= 0 THEN d \div Millisecond ELSE -((-d) \div Millisecond)

\* formatDuration keeping two digits of the hours.
formatDuration_TwoHourDigits(d) ==
    LET ms0 == Milliseconds(d)
        total == IF ms0 < 0 THEN 0 ELSE ms0
        ms == total % 1000
        t1 == total \div 1000
        s == t1 % 60
        t2 == t1 \div 60
        m == t2 % 60
        h == (t2 \div 60) % 100
    IN  ZeroPad(Digits(h), 2) \o << 58 >> \o ZeroPad(Digits(m), 2) \o << 58 >>
        \o ZeroPad(Digits(s), 2) \o << 46 >> \o ZeroPad(Digits(ms), 3)

formatDuration(d) ==
    LET ms0 == Milliseconds(d)
        total == IF ms0 < 0 THEN 0 ELSE ms0
        ms == total % 1000
        t1 == total \div 1000
        s == t1 % 60
        t2 == t1 \div 60
        m == t2 % 60
        h == t2 \div 60
    IN  ZeroPad(Digits(h), 2) \o << 58 >> \o ZeroPad(Digits(m), 2) \o << 58 >>
        \o ZeroPad(Digits(s), 2) \o << 46 >> \o ZeroPad(Digits(ms), 3)

\* atoi of the test helpers: the decimal value of the digits of s, other characters skipped.
RECURSIVE atoiFrom(_, _)
atoiFrom(s, n) ==
    IF s = <<>> THEN n
    ELSE IF Head(s) >= 48 /\ Head(s) <= 57
         THEN atoiFrom(Tail(s), n * 10 + (Head(s) - 48))
         ELSE atoiFrom(Tail(s), n)

atoi(s) == atoiFrom(s, 0)

parseDuration(s) ==
    LET parts == SplitN(s, 58, 3)
    IN  IF Len(parts) # 3 THEN 0
        ELSE LET secParts == SplitN(parts[3], 46, 2)
                 ms == IF Len(secParts) = 2 THEN atoi(secParts[2]) ELSE 0
             IN  atoi(parts[1]) * Hour + atoi(parts[2]) * Minute
                 + atoi(secParts[1]) * Second + ms * Millisecond

(***************************************************************************)
(* deduplicateSegments                                                     *)
(***************************************************************************)
transcriptSegment(start, end, text) == [Start |-> start, End |-> end, Text |-> text]

\* overlaps with the second comparison mistyped.
overlaps_Mistyped(aStart, aEnd, bStart, bEnd) == aStart < bEnd /\ bEnd < aEnd

overlaps(aStart, aEnd, bStart, bEnd) == aStart < bEnd /\ bStart < aEnd

\* "Current is contained in prev": the range test of both skip branches.
SegInPrev(segStart, segEnd, prevStart, prevEnd) ==
    segStart >= prevStart /\ segEnd <= prevEnd

\* PrevInSeg without its comparison of the start times.
PrevInSeg_EndOnly(segStart, segEnd, prevStart, prevEnd) == prevEnd <= segEnd

\* "Prev is contained in current": the range test of both replace branches.
PrevInSeg(segStart, segEnd, prevStart, prevEnd) ==
    prevStart >= segStart /\ prevEnd <= segEnd

\* SameText without the trimming of the accepted entry's text.
SameText_Untrimmed(prevText, text) == prevText = text

\* The text comparison of the same-text branch.
SameText(prevText, text) == TrimSpace(prevText) = text

\* One pass of the inner loop body for result[i]: "skip", "replace" or "next".
Compare(seg, prev) ==
    LET text == TrimSpace(seg.Text)
        segStart == parseDuration(seg.Start)
        segEnd == parseDuration(seg.End)
        segDur == segEnd - segStart
        prevStart == parseDuration(prev.Start)
        prevEnd == parseDuration(prev.End)
        prevDur == prevEnd - prevStart
        prevLen == ByteLen(TrimSpace(prev.Text))
    IN  IF SameText(prev.Text, text) /\ SegInPrev(segStart, segEnd, prevStart, prevEnd)
        THEN "skip"
        ELSE IF SameText(prev.Text, text) /\ PrevInSeg(segStart, segEnd, prevStart, prevEnd)
        THEN "replace"
        ELSE IF overlaps(segStart, segEnd, prevStart, prevEnd)
                /\ SegInPrev(segStart, segEnd, prevStart, prevEnd)
                /\ segDur < prevDur /\ ByteLen(text) < prevLen
        THEN "skip"
        ELSE IF overlaps(segStart, segEnd, prevStart, prevEnd)
                /\ PrevInSeg(segStart, segEnd, prevStart, prevEnd)
                /\ prevDur < segDur /\ prevLen < ByteLen(text)
        THEN "replace"
        ELSE "next"

\* Resolve writing the replacing segment's times into the entry and keeping its text.
RECURSIVE Resolve_KeepText(_, _, _)
Resolve_KeepText(seg, result, i) ==
    IF i > Len(result) THEN Append(result, seg)
    ELSE LET c == Compare(seg, result[i])
         IN  IF c = "skip" THEN result
             ELSE IF c = "replace"
                  THEN [result EXCEPT ![i] = [seg EXCEPT !.Text = result[i].Text]]
             ELSE Resolve_KeepText(seg, result, i + 1)

\* The inner loop from index i on: the result list after seg has been resolved
\* against the first entry that matches, or appended when none does.
RECURSIVE Resolve(_, _, _)
Resolve(seg, result, i) ==
    IF i > Len(result) THEN Append(result, seg)
    ELSE LET c == Compare(seg, result[i])
         IN  IF c = "skip" THEN result
             ELSE IF c = "replace" THEN [result EXCEPT ![i] = seg]
             ELSE Resolve(seg, result, i + 1)

\* The outer loop from segs[k] on.
RECURSIVE DedupLoop(_, _, _)
DedupLoop(segs, k, result) ==
    IF k > Len(segs) THEN result
    ELSE IF TrimSpace(segs[k].Text) = <<>>
         THEN DedupLoop(segs, k + 1, result)
         ELSE DedupLoop(segs, k + 1, Resolve(segs[k], result, 1))

deduplicateSegments(segs) ==
    IF Len(segs) <= 1 THEN segs ELSE DedupLoop(segs, 1, <<>>)

\* Longest input sequence of the deduplicator model.
MaxSegs == 3

\* Segment times of the modelled inputs, in milliseconds.
DedupTimes == {0, 1500, 3723004}
PairTimes == {0, 1500, 61000, 3723004}

\* "a", " a", "bc", " "
DedupTexts == { <<97>>, <<32, 97>>, <<98, 99>>, <<32>> }
\* "a", "A", " a", "  ", "д", "bc", "abc "
PairTexts == { <<97>>, <<65>>, <<32, 97>>, <<32, 32>>, <<1076>>, <<98, 99>>, <<97, 98, 99, 32>> }

\* The segments main builds: both times through formatDuration, end not before start.
SegmentsOver(times, texts) ==
    { transcriptSegment(formatDuration(s * Millisecond), formatDuration(e * Millisecond), t) :
        <<s, e, t>> \in { x \in times \X times \X texts : x[1] <= x[2] } }

DedupInit ==
    /\ dedupIn \in SeqsUpTo(SegmentsOver(DedupTimes, DedupTexts), MaxSegs)
    /\ dedupOut = <<>>
    /\ dedupPc = "called"
    /\ SegIdle /\ FilterIdle /\ MainIdle /\ CallIdle

PairInit ==
    /\ dedupIn \in [1..2 -> SegmentsOver(PairTimes, PairTexts)]
    /\ dedupOut = <<>>
    /\ dedupPc = "called"
    /\ SegIdle /\ FilterIdle /\ MainIdle /\ CallIdle

\* The call deduplicateSegments(dedupIn) runs to its return.
Deduplicate ==
    /\ dedupPc = "called"
    /\ dedupOut' = deduplicateSegments(dedupIn)
    /\ dedupPc' = "returned"
    /\ UNCHANGED <<dedupIn, segVars, filterVars, mainVars, callVars>>

SpecDedup == DedupInit /\ [][Deduplicate]_vars
SpecDedupPair == PairInit /\ [][Deduplicate]_vars

\* deduplicateSegments is called again, on what the first call returned.
DeduplicateAgain ==
    /\ dedupPc = "returned" /\ callPc = "idle"
    /\ callFn' = "deduplicateSegments"
    /\ callArgs' = << dedupOut >>
    /\ callRet' = deduplicateSegments(dedupOut)
    /\ callPc' = "returned"
    /\ UNCHANGED <<dedupVars, segVars, filterVars, mainVars>>

SpecDedupTwice == DedupInit /\ [][Deduplicate \/ DeduplicateAgain]_vars

(***************************************************************************)
(* Properties of deduplicateSegments                                       *)
(***************************************************************************)
StartOf(seg) == parseDuration(seg.Start)
EndOf(seg) == parseDuration(seg.End)
DurOf(seg) == EndOf(seg) - StartOf(seg)

\* The time range of a lies within the time range of b.
Within(a, b) == StartOf(a) >= StartOf(b) /\ EndOf(a) <= EndOf(b)

\* start_a < end_b AND start_b < end_a
RangesOverlap(a, b) == StartOf(a) < EndOf(b) /\ StartOf(b) < EndOf(a)

\* Normalization as the specification defines it: lowercased and trimmed.
Normalized(text) == ToLower(TrimSpace(text))

\* The number of characters of the trimmed text.
CharCount(text) == RuneCount(TrimSpace(text))

\* out holds exactly one segment, an input segment whose range covers both inputs.
OnlyTheWider(out, a, b) ==
    /\ Len(out) = 1
    /\ out[1] \in {a, b}
    /\ Within(a, out[1]) /\ Within(b, out[1])

DedupReturned == dedupPc = "returned"

\* C5 as stated: two segments whose texts are identical after lowercasing and
\* trimming, one range containing the other, leave exactly the wider segment.
C5_NormalizedTextPair ==
    (DedupReturned /\ Len(dedupIn) = 2
       /\ Normalized(dedupIn[1].Text) = Normalized(dedupIn[2].Text)
       /\ (Within(dedupIn[1], dedupIn[2]) \/ Within(dedupIn[2], dedupIn[1])))
    => OnlyTheWider(dedupOut, dedupIn[1], dedupIn[2])

\* C5 amended: two segments whose texts are identical after trimming alone
\* (compared case-sensitively) and not empty, one range containing the other,
\* leave exactly the wider segment, in either input order.
C5_TrimmedTextPair ==
    (DedupReturned /\ Len(dedupIn) = 2
       /\ TrimSpace(dedupIn[1].Text) = TrimSpace(dedupIn[2].Text)
       /\ TrimSpace(dedupIn[1].Text) # <<>>
       /\ (Within(dedupIn[1], dedupIn[2]) \/ Within(dedupIn[2], dedupIn[1])))
    => OnlyTheWider(dedupOut, dedupIn[1], dedupIn[2])

\* C5 witness: the narrower segment came first with text "a", the strictly wider
\* one second with text " a", and the wider one replaced it.
C5_Witness ==
    /\ DedupReturned /\ Len(dedupIn) = 2
    /\ dedupIn[1].Text = <<97>> /\ dedupIn[2].Text = <<32, 97>>
    /\ Within(dedupIn[1], dedupIn[2]) /\ DurOf(dedupIn[1]) < DurOf(dedupIn[2])
    /\ dedupOut = << dedupIn[2] >>

\* x and y have different texts and overlapping ranges, x lies within y and is
\* shorter in duration and in the given text measure.
ShorterInside(x, y, measure(_)) ==
    /\ x.Text # y.Text
    /\ RangesOverlap(x, y)
    /\ Within(x, y)
    /\ DurOf(x) < DurOf(y)
    /\ measure(x.Text) < measure(y.Text)

TrimmedByteLen(text) == ByteLen(TrimSpace(text))

\* C6 as stated: of two overlapping segments with different texts, one within the
\* other and shorter in duration and in character count, only the longer is returned.
C6_ShorterByChars ==
    (DedupReturned /\ Len(dedupIn) = 2)
    => \A i \in 1..2 :
          ShorterInside(dedupIn[i], dedupIn[3 - i], CharCount)
          => dedupOut = << dedupIn[3 - i] >>

\* C6 amended: of two overlapping segments with different texts, one within the
\* other and shorter in duration and in the UTF-8 byte length of its trimmed text,
\* only the longer is returned, in either input order.
C6_ShorterByBytes ==
    (DedupReturned /\ Len(dedupIn) = 2)
    => \A i \in 1..2 :
          ShorterInside(dedupIn[i], dedupIn[3 - i], TrimmedByteLen)
          => dedupOut = << dedupIn[3 - i] >>

\* C6 witness: the shorter segment, the two-byte text "д", came first and was
\* replaced by the longer one, "abc ", that came second.
C6_Witness ==
    /\ DedupReturned /\ Len(dedupIn) = 2
    /\ dedupIn[1].Text = <<1076>> /\ dedupIn[2].Text = <<97, 98, 99, 32>>
    /\ ShorterInside(dedupIn[1], dedupIn[2], TrimmedByteLen)
    /\ dedupOut = << dedupIn[2] >>

\* C7: no two returned segments have identical text and overlapping time ranges.
C7_NoSameTextOverlap ==
    DedupReturned
    => \A i, j \in 1..Len(dedupOut) :
          i < j => ~(dedupOut[i].Text = dedupOut[j].Text
                     /\ RangesOverlap(dedupOut[i], dedupOut[j]))

\* C8: no returned segment lies within another returned segment that has a different
\* text and is longer in both duration and character count.
C8_NoShorterInside ==
    DedupReturned
    => \A i, j \in 1..Len(dedupOut) :
          i # j => ~( /\ dedupOut[i].Text # dedupOut[j].Text
                      /\ Within(dedupOut[i], dedupOut[j])
                      /\ DurOf(dedupOut[i]) < DurOf(dedupOut[j])
                      /\ CharCount(dedupOut[i].Text) < CharCount(dedupOut[j].Text) )

SortedByStart(segs) ==
    \A i \in 1..(Len(segs) - 1) : StartOf(segs[i]) <= StartOf(segs[i + 1])

\* C9: an input ordered by start time gives an output ordered by start time.
C9_OrderPreserved ==
    (DedupReturned /\ SortedByStart(dedupIn)) => SortedByStart(dedupOut)

\* C9 witness: a sorted three-segment input whose third segment replaced the first
\* accepted entry in place, a second entry staying behind it.
C9_Witness ==
    /\ DedupReturned /\ Len(dedupIn) = 3 /\ SortedByStart(dedupIn)
    /\ Len(dedupOut) = 2
    /\ dedupOut[1] = dedupIn[3] /\ dedupOut[2] = dedupIn[2]
    /\ dedupIn[1] # dedupIn[3]

\* C25: every returned segment is, in start, end and text, a segment of the input;
\* the output is not longer than the input; the input sequence is not changed.
C25_OutputFromInput ==
    /\ [](DedupReturned =>
            /\ Len(dedupOut) <= Len(dedupIn)
            /\ \A i \in 1..Len(dedupOut) : \E j \in 1..Len(dedupIn) :
                  /\ dedupOut[i].Start = dedupIn[j].Start
                  /\ dedupOut[i].End = dedupIn[j].End
                  /\ dedupOut[i].Text = dedupIn[j].Text)
    /\ [][dedupIn' = dedupIn]_vars

\* C25 witness: of three segments with three different texts the second replaced
\* the first and the third was dropped; the one returned is the second, whole.
C25_Witness ==
    /\ DedupReturned /\ Len(dedupIn) = 3 /\ Len(dedupOut) = 1
    /\ dedupOut[1] = dedupIn[2]
    /\ dedupIn[1].Text # dedupIn[2].Text
    /\ dedupIn[3].Text # dedupIn[2].Text
    /\ dedupIn[1].Text # dedupIn[3].Text

\* C27: deduplicateSegments applied to its own output returns that output.
C27_Idempotent ==
    (callFn = "deduplicateSegments" /\ callPc = "returned") => callRet = dedupOut

\* C10: no returned segment has an empty trimmed text, whatever the input's length.
C10_NoEmptyText ==
    DedupReturned => \A i \in 1..Len(dedupOut) : TrimSpace(dedupOut[i].Text) # <<>>

(***************************************************************************)
(* The hallucination filter                                                *)
(***************************************************************************)
\* The phrase table, each phrase as its code points.
hallucinationPhrases == {
    <<46>>,  \* "."
    <<46, 46, 46>>,  \* "..."
    <<8230>>,  \* "…"
    <<9834>>,  \* "♪"
    <<127925>>,  \* "🎵"
    <<97, 108, 108, 32, 114, 105, 103, 104, 116, 46>>,  \* "all right."
    <<97, 119, 46>>,  \* "aw."
    <<97, 119, 119, 46>>,  \* "aww."
    <<98, 121, 101, 46>>,  \* "bye."
    <<98, 121, 101, 32, 98, 121, 101, 46>>,  \* "bye bye."
    <<98, 121, 101, 45, 98, 121, 101, 46>>,  \* "bye-bye."
    <<98, 121, 101, 33>>,  \* "bye!"
    <<99, 97, 110, 32, 105, 32, 103, 111, 63>>,  \* "can i go?"
    <<101, 118, 101, 114, 121, 116, 104, 105, 110, 103, 32, 97, 108, 108, 32, 114, 105, 103, 104, 116, 46>>,  \* "everything all right."
    <<103, 111, 100, 32, 98, 108, 101, 115, 115, 32, 121, 111, 117, 46>>,  \* "god bless you."
    <<103, 111, 111, 100, 46>>,  \* "good."
    <<105, 32, 100, 111, 110, 39, 116, 32, 107, 110, 111, 119, 46>>,  \* "i don't know."
    <<105, 32, 108, 111, 118, 101, 32, 121, 111, 117, 46>>,  \* "i love you."
    <<105, 39, 109, 32, 104, 97, 112, 112, 121, 32, 116, 111, 32, 98, 101, 32, 104, 101, 114, 101, 46>>,  \* "i'm happy to be here."
    <<105, 39, 109, 32, 106, 117, 115, 116, 32, 97, 32, 102, 111, 114, 109, 46>>,  \* "i'm just a form."
    <<105, 39, 109, 32, 115, 111, 114, 114, 121, 46>>,  \* "i'm sorry."
    <<105, 39, 109, 32, 115, 111, 32, 103, 108, 97, 100, 32, 116, 111, 32, 98, 101, 32, 104, 101, 114, 101, 46>>,  \* "i'm so glad to be here."
    <<105, 32, 97, 109, 32, 118, 101, 114, 121, 32, 103, 111, 111, 100, 46>>,  \* "i am very good."
    <<105, 116, 39, 115, 32, 97, 119, 101, 115, 111, 109, 101, 46>>,  \* "it's awesome."
    <<105, 116, 39, 115, 32, 104, 111, 114, 114, 105, 98, 108, 101, 46>>,  \* "it's horrible."
    <<108, 101, 116, 39, 115, 32, 100, 111, 32, 116, 104, 97, 116, 32, 97, 103, 97, 105, 110, 46>>,  \* "let's do that again."
    <<110, 105, 99, 101, 46>>,  \* "nice."
    <<110, 111, 46>>,  \* "no."
    <<111, 104, 44, 32, 109, 121, 32, 103, 111, 100, 46>>,  \* "oh, my god."
    <<111, 107, 46>>,  \* "ok."
    <<111, 107, 97, 121, 46>>,  \* "okay."
    <<114, 105, 103, 104, 116, 32, 104, 101, 114, 101, 46>>,  \* "right here."
    <<115, 111>>,  \* "so"
    <<111, 104>>,  \* "oh"
    <<116, 104, 97, 116, 39, 115, 32, 105, 116, 46>>,  \* "that's it."
    <<116, 104, 97, 116, 39, 115, 32, 116, 104, 101, 32, 119, 104, 111, 108, 101, 32, 116, 104, 105, 110, 103, 46>>,  \* "that's the whole thing."
    <<117, 104, 45, 104, 117, 104, 46>>,  \* "uh-huh."
    <<119, 101, 39, 108, 108, 32, 98, 101, 32, 114, 105, 103, 104, 116, 32, 98, 97, 99, 107, 46>>,  \* "we'll be right back."
    <<121, 101, 97, 104, 46>>,  \* "yeah."
    <<121, 101, 115, 46>>,  \* "yes."
    <<121, 111, 117>>,  \* "you"
    <<116, 104, 97, 110, 107, 32, 121, 111, 117, 46>>,  \* "thank you."
    <<116, 104, 97, 110, 107, 32, 121, 111, 117>>,  \* "thank you"
    <<116, 104, 97, 110, 107, 32, 121, 111, 117, 32, 97, 108, 108, 46>>,  \* "thank you all."
    <<116, 104, 97, 110, 107, 32, 121, 111, 117, 32, 115, 111, 32, 109, 117, 99, 104, 46>>,  \* "thank you so much."
    <<116, 104, 97, 110, 107, 32, 121, 111, 117, 32, 118, 101, 114, 121, 32, 109, 117, 99, 104, 46>>,  \* "thank you very much."
    <<116, 104, 97, 110, 107, 32, 121, 111, 117, 32, 102, 111, 114, 32, 104, 97, 118, 105, 110, 103, 32, 109, 101, 46>>,  \* "thank you for having me."
    <<116, 104, 97, 110, 107, 32, 121, 111, 117, 32, 102, 111, 114, 32, 108, 105, 115, 116, 101, 110, 105, 110, 103, 46>>,  \* "thank you for listening."
    <<116, 104, 97, 110, 107, 32, 121, 111, 117, 32, 102, 111, 114, 32, 116, 111, 100, 97, 121, 46>>,  \* "thank you for today."
    <<116, 104, 97, 110, 107, 32, 121, 111, 117, 32, 102, 111, 114, 32, 121, 111, 117, 114, 32, 116, 105, 109, 101, 46>>,  \* "thank you for your time."
    <<116, 104, 97, 110, 107, 32, 121, 111, 117, 32, 118, 101, 114, 121, 32, 109, 117, 99, 104, 32, 102, 111, 114, 32, 99, 111, 109, 105, 110, 103, 46>>,  \* "thank you very much for coming."
    <<111, 107, 97, 121, 44, 32, 116, 104, 97, 110, 107, 32, 121, 111, 117, 46>>,  \* "okay, thank you."
    <<97, 108, 108, 32, 114, 105, 103, 104, 116, 44, 32, 116, 104, 97, 110, 107, 32, 121, 111, 117, 46>>,  \* "all right, thank you."
    <<116, 104, 97, 110, 107, 115, 46>>,  \* "thanks."
    <<116, 104, 97, 110, 107, 115, 32, 102, 111, 114, 32, 119, 97, 116, 99, 104, 105, 110, 103, 46>>,  \* "thanks for watching."
    <<116, 104, 97, 110, 107, 115, 32, 102, 111, 114, 32, 119, 97, 116, 99, 104, 105, 110, 103, 33>>,  \* "thanks for watching!"
    <<104, 97, 118, 101, 32, 97, 32, 103, 111, 111, 100, 32, 110, 105, 103, 104, 116, 44, 32, 103, 117, 121, 115, 46>>,  \* "have a good night, guys."
    <<105, 39, 108, 108, 32, 115, 101, 101, 32, 121, 111, 117, 32, 110, 101, 120, 116, 32, 116, 105, 109, 101, 46>>,  \* "i'll see you next time."
    <<116, 104, 101, 32, 101, 110, 100, 46>>,  \* "the end."
    <<116, 104, 101, 32, 101, 110, 100>>,  \* "the end"
    <<103, 111, 111, 100, 98, 121, 101, 46>>,  \* "goodbye."
    <<115, 117, 98, 115, 99, 114, 105, 98, 101>>,  \* "subscribe"
    <<112, 108, 101, 97, 115, 101, 32, 115, 117, 98, 115, 99, 114, 105, 98, 101>>,  \* "please subscribe"
    <<115, 117, 98, 115, 99, 114, 105, 98, 101, 32, 116, 111, 32, 109, 121, 32, 99, 104, 97, 110, 110, 101, 108>>,  \* "subscribe to my channel"
    <<108, 105, 107, 101, 32, 97, 110, 100, 32, 115, 117, 98, 115, 99, 114, 105, 98, 101>>,  \* "like and subscribe"
    <<115, 117, 98, 116, 105, 116, 108, 101, 115, 32, 98, 121, 32, 116, 104, 101, 32, 97, 109, 97, 114, 97, 46, 111, 114, 103, 32, 99, 111, 109, 109, 117, 110, 105, 116, 121>>,  \* "subtitles by the amara.org community"
    <<115, 117, 98, 116, 105, 116, 108, 101, 115, 32, 109, 97, 100, 101, 32, 98, 121>>,  \* "subtitles made by"
    <<116, 114, 97, 110, 115, 108, 97, 116, 101, 100, 32, 98, 121>>,  \* "translated by"
    <<99, 111, 112, 121, 114, 105, 103, 104, 116>>,  \* "copyright"
    <<109, 117, 115, 105, 99>>,  \* "music"
    <<97, 112, 112, 108, 97, 117, 115, 101>>,  \* "applause"
    <<108, 97, 117, 103, 104, 116, 101, 114>>,  \* "laughter"
    <<115, 105, 108, 101, 110, 99, 101>>,  \* "silence"
    <<1076, 1103, 1082, 1091, 1102>>,  \* "дякую"
    <<1076, 1103, 1082, 1091, 1102, 32, 1079, 1072, 32, 1087, 1077, 1088, 1077, 1075, 1083, 1103, 1076>>,  \* "дякую за перегляд"
    <<1076, 1103, 1082, 1091, 1102, 32, 1079, 1072, 32, 1074, 1072, 1096, 1091, 32, 1087, 1110, 1076, 1090, 1088, 1080, 1084, 1082, 1091>>,  \* "дякую за вашу підтримку"
    <<1087, 1110, 1076, 1087, 1080, 1089, 1091, 1081, 1090, 1077, 1089, 1100, 32, 1085, 1072, 32, 1085, 1072, 1096, 32, 1082, 1072, 1085, 1072, 1083>>,  \* "підписуйтесь на наш канал"
    <<1079, 1074, 1091, 1082, 1080, 32, 1074, 1080, 1073, 1091, 1093, 1110, 1074>>,  \* "звуки вибухів"
    <<1089, 1091, 1073, 1090, 1080, 1090, 1088, 1091, 1074, 1072, 1083, 1100, 1085, 1080, 1094, 1103, 32, 1086, 1083, 1103, 32, 1096, 1086, 1088>>,  \* "субтитрувальниця оля шор"
    <<1087, 1088, 1086, 1076, 1086, 1083, 1078, 1077, 1085, 1080, 1077, 32, 1089, 1083, 1077, 1076, 1091, 1077, 1090, 46, 46, 46>>,  \* "продолжение следует..."
    <<1087, 1088, 1086, 1076, 1086, 1083, 1078, 1077, 1085, 1080, 1077, 32, 1089, 1083, 1077, 1076, 1091, 1077, 1090>>,  \* "продолжение следует"
    <<1089, 1087, 1072, 1089, 1080, 1073, 1086, 46>>,  \* "спасибо."
    <<1089, 1087, 1072, 1089, 1080, 1073, 1086>>,  \* "спасибо"
    <<1089, 1087, 1072, 1089, 1080, 1073, 1086, 32, 1079, 1072, 32, 1087, 1088, 1086, 1089, 1084, 1086, 1090, 1088>>,  \* "спасибо за просмотр"
    <<1074, 1089, 1077, 32, 1089, 1087, 1072, 1089, 1080, 1073, 1086>>,  \* "все спасибо"
    <<1076, 1086, 32, 1085, 1086, 1074, 1099, 1093, 32, 1074, 1089, 1090, 1088, 1077, 1095>>,  \* "до новых встреч"
    <<1089, 1091, 1073, 1090, 1080, 1090, 1088, 1099, 32, 1089, 1086, 1079, 1076, 1072, 1074, 1072, 1083, 32, 100, 105, 109, 97, 116, 111, 114, 122, 111, 107>>,  \* "субтитры создавал dimatorzok"
    <<1089, 1091, 1073, 1090, 1080, 1090, 1088, 1099, 32, 1089, 1076, 1077, 1083, 1072, 1083, 32, 100, 105, 109, 97, 116, 111, 114, 122, 111, 107>>,  \* "субтитры сделал dimatorzok"
    <<1089, 1091, 1073, 1090, 1080, 1090, 1088, 1099, 32, 1076, 1077, 1083, 1072, 1083, 32, 100, 105, 109, 97, 116, 111, 114, 122, 111, 107>>,  \* "субтитры делал dimatorzok"
    <<1089, 1091, 1073, 1090, 1080, 1090, 1088, 1099, 32, 1076, 1086, 1073, 1072, 1074, 1080, 1083, 32, 100, 105, 109, 97, 116, 111, 114, 122, 111, 107>>,  \* "субтитры добавил dimatorzok"
    <<1089, 1091, 1073, 1090, 1080, 1090, 1088, 1099, 32, 1087, 1086, 1076, 1086, 1075, 1085, 1072, 1083, 32, 171, 1089, 1080, 1084, 1086, 1085, 187>>,  \* "субтитры подогнал «симон»"
    <<1076, 1080, 1085, 1072, 1084, 1080, 1095, 1085, 1072, 1103, 32, 1084, 1091, 1079, 1099, 1082, 1072>>,  \* "динамичная музыка"
    <<1080>>,  \* "и"
    <<1089, 1087, 1072, 1089, 1080, 1073, 1086, 32, 1079, 1072, 32, 1089, 1091, 1073, 1090, 1080, 1090, 1088, 1099, 32, 1072, 1083, 1077, 1082, 1089, 1077, 1102, 32, 1076, 1091, 1073, 1088, 1086, 1074, 1089, 1082, 1086, 1084, 1091, 33>>,  \* "спасибо за субтитры алексею дубровскому!"
    <<1089, 1084, 1086, 1090, 1088, 1080, 1090, 1077, 32, 1076, 1088, 1091, 1075, 1080, 1077, 32, 1074, 1080, 1076, 1077, 1086>>  \* "смотрите другие видео"
}

\* The prefix table, in its order.
hallucinationPrefixes == <<
    <<116, 104, 97, 110, 107, 32, 121, 111, 117, 32, 115, 111, 32, 109, 117, 99, 104, 32, 102, 111, 114, 32, 106, 111, 105, 110, 105, 110, 103>>,  \* "thank you so much for joining"
    <<116, 104, 97, 110, 107, 32, 121, 111, 117, 32, 102, 111, 114, 32, 119, 97, 116, 99, 104, 105, 110, 103>>,  \* "thank you for watching"
    <<116, 104, 97, 110, 107, 115, 32, 102, 111, 114, 32, 119, 97, 116, 99, 104, 105, 110, 103>>,  \* "thanks for watching"
    <<116, 104, 97, 110, 107, 32, 121, 111, 117, 44, 32, 109, 114, 46, 32, 112, 114, 101, 115, 105, 100, 101, 110, 116>>,  \* "thank you, mr. president"
    <<105, 39, 109, 32, 103, 111, 105, 110, 103, 32, 116, 111, 32, 116, 114, 121, 32, 116, 104, 101, 32, 115, 119, 105, 116, 99, 104>>,  \* "i'm going to try the switch"
    <<105, 39, 109, 32, 103, 111, 105, 110, 103, 32, 116, 111, 32, 115, 97, 121, 32, 105, 116, 39, 115, 32, 103, 111, 111, 100, 32, 97, 108, 114, 101, 97, 100, 121>>,  \* "i'm going to say it's good already"
    <<105, 32, 115, 97, 105, 100, 32, 103, 111, 111, 100, 32, 97, 108, 114, 101, 97, 100, 121>>,  \* "i said good already"
    <<115, 111, 32, 119, 101, 39, 114, 101, 32, 103, 111, 105, 110, 103, 32, 116, 111, 32, 116, 97, 108, 107, 32, 97, 98, 111, 117, 116, 32, 116, 104, 105, 115>>,  \* "so we're going to talk about this"
    <<119, 101, 39, 114, 101, 32, 103, 111, 105, 110, 103, 32, 116, 111, 32, 116, 97, 108, 107, 32, 97, 98, 111, 117, 116, 32, 116, 104, 105, 115>>,  \* "we're going to talk about this"
    <<119, 101, 39, 114, 101, 32, 103, 111, 105, 110, 103, 32, 116, 111, 32, 98, 101, 32, 97, 32, 98, 101, 116, 116, 101, 114>>,  \* "we're going to be a better"
    <<105, 39, 109, 32, 115, 112, 101, 97, 107, 105, 110, 103, 44, 32, 105, 39, 109, 32, 115, 112, 101, 97, 107, 105, 110, 103>>,  \* "i'm speaking, i'm speaking"
    <<110, 101, 120, 116, 32, 115, 108, 105, 100, 101, 44, 32, 110, 101, 120, 116, 32, 115, 108, 105, 100, 101>>,  \* "next slide, next slide"
    <<105, 32, 103, 111, 116, 32, 116, 104, 105, 115>>,  \* "i got this"
    <<115, 117, 98, 116, 105, 116, 108, 101, 115>>,  \* "subtitles"
    <<116, 114, 97, 110, 115, 108, 97, 116, 101, 100, 32, 98, 121>>,  \* "translated by"
    <<1076, 1103, 1082, 1091, 1102, 32, 1079, 1072>>,  \* "дякую за"
    <<1087, 1110, 1076, 1087, 1080, 1089, 1091, 1081, 1090, 1077, 1089, 1100>>,  \* "підписуйтесь"
    <<1089, 1091, 1073, 1090, 1080, 1090, 1088, 1080>>,  \* "субтитри"
    <<1087, 1086, 1076, 1087, 1080, 1089, 1099, 1074, 1072, 1081, 1090, 1077, 1089, 1100, 32, 1085, 1072>>,  \* "подписывайтесь на"
    <<1087, 1086, 1076, 1087, 1080, 1096, 1080, 1090, 1077, 1089, 1100, 32, 1085, 1072>>,  \* "подпишитесь на"
    <<1087, 1086, 1076, 1087, 1080, 1096, 1080, 1089, 1100, 32, 1085, 1072>>,  \* "подпишись на"
    <<1089, 1087, 1072, 1089, 1080, 1073, 1086, 32, 1079, 1072, 32, 1089, 1091, 1073, 1090, 1080, 1090, 1088, 1099>>,  \* "спасибо за субтитры"
    <<1089, 1090, 1072, 1074, 1100, 1090, 1077, 32, 1083, 1072, 1081, 1082, 1080>>,  \* "ставьте лайки"
    <<1088, 1077, 1076, 1072, 1082, 1090, 1086, 1088, 32, 1089, 1091, 1073, 1090, 1080, 1090, 1088, 1086, 1074>>,  \* "редактор субтитров"
    <<1082, 1086, 1088, 1088, 1077, 1082, 1090, 1086, 1088, 32, 1072>>,  \* "корректор а"
    <<1089, 1091, 1073, 1090, 1080, 1090, 1088, 1099, 32, 1089, 1076, 1077, 1083, 1072, 1083>>,  \* "субтитры сделал"
    <<1089, 1091, 1073, 1090, 1080, 1090, 1088, 1099, 32, 1076, 1077, 1083, 1072, 1083>>,  \* "субтитры делал"
    <<1089, 1091, 1073, 1090, 1080, 1090, 1088, 1099, 32, 1076, 1086, 1073, 1072, 1074, 1080, 1083>>,  \* "субтитры добавил"
    <<1089, 1091, 1073, 1090, 1080, 1090, 1088, 1099, 32, 1089, 1086, 1079, 1076, 1072, 1074, 1072, 1083>>,  \* "субтитры создавал"
    <<1082, 1072, 1085, 1072, 1083, 32, 1089, 1091, 1073, 1090, 1080, 1090, 1088, 1099>>,  \* "канал субтитры"
    <<1089, 1084, 1086, 1090, 1088, 1080, 1090, 1077, 32, 1087, 1088, 1086, 1076, 1086, 1083, 1078, 1077, 1085, 1080, 1077>>,  \* "смотрите продолжение"
    <<1074, 1089, 1077, 1084, 32, 1087, 1088, 1080, 1074, 1077, 1090, 32, 1080, 32, 1076, 1086, 1073, 1088, 1086, 32, 1087, 1086, 1078, 1072, 1083, 1086, 1074, 1072, 1090, 1100>>  \* "всем привет и добро пожаловать"
>>

stopwords == {
    <<116, 104, 101>>,  \* "the"
    <<97, 110, 100>>,  \* "and"
    <<102, 111, 114>>,  \* "for"
    <<121, 111, 117>>,  \* "you"
    <<116, 104, 105, 115>>,  \* "this"
    <<116, 104, 97, 116>>,  \* "that"
    <<119, 105, 116, 104>>,  \* "with"
    <<102, 114, 111, 109>>,  \* "from"
    <<104, 97, 118, 101>>,  \* "have"
    <<97, 114, 101>>  \* "are"
}

\* Probabilities are held in percent, logarithms in thousandths, ratios as fractions.
noSpeechProbThreshold == 60
avgLogprobThreshold == -1000
\* compressionThreshold, 2.4, in tenths.
compressionThreshold == 24
minSegmentChars == 3
minRealWords == 1

Rat(num, den) == [num |-> num, den |-> den]
\* a < b and a > b for fractions with positive denominators.
RatLess(a, b) == a.num * b.den < b.num * a.den
RatGreater(a, b) == RatLess(b, a)

\* The loop of hasRepeatedChars from the i-th character on.
RECURSIVE hasRepeatedFrom(_, _, _, _)
hasRepeatedFrom(s, i, prev, count) ==
    IF i > Len(s) THEN FALSE
    ELSE IF s[i] = prev
         THEN IF count + 1 >= 5 THEN TRUE ELSE hasRepeatedFrom(s, i + 1, prev, count + 1)
         ELSE hasRepeatedFrom(s, i + 1, s[i], 1)

\* var prev rune (the zero rune); count := 1
hasRepeatedChars(s) == hasRepeatedFrom(s, 1, 0, 1)

\* The length of the leading run of non-space characters of s.
RECURSIVE WordLen(_)
WordLen(s) == IF s = <<>> \/ IsSpace(Head(s)) THEN 0 ELSE 1 + WordLen(Tail(s))

\* strings.Fields
RECURSIVE Fields(_)
Fields(s) ==
    LET t == TrimLeft(s)
    IN  IF t = <<>> THEN <<>>
        ELSE << SubSeq(t, 1, WordLen(t)) >> \o Fields(SubSeq(t, WordLen(t) + 1, Len(t)))

isStopword(word) == ToLower(word) \in stopwords

\* hasRealWordsFrom measuring a word by its bytes.
RECURSIVE hasRealWordsFrom_ByteLen(_, _, _, _)
hasRealWordsFrom_ByteLen(words, i, count, n) ==
    IF i > Len(words) THEN FALSE
    ELSE IF ByteLen(words[i]) >= 3 /\ ~isStopword(words[i])
         THEN IF count + 1 >= n THEN TRUE
              ELSE hasRealWordsFrom_ByteLen(words, i + 1, count + 1, n)
         ELSE hasRealWordsFrom_ByteLen(words, i + 1, count, n)

\* The loop of hasRealWords from the i-th word on.
RECURSIVE hasRealWordsFrom(_, _, _, _)
hasRealWordsFrom(words, i, count, n) ==
    IF i > Len(words) THEN FALSE
    ELSE IF RuneCount(words[i]) >= 3 /\ ~isStopword(words[i])
         THEN IF count + 1 >= n THEN TRUE ELSE hasRealWordsFrom(words, i + 1, count + 1, n)
         ELSE hasRealWordsFrom(words, i + 1, count, n)

hasRealWords(text, n) == hasRealWordsFrom(Fields(text), 1, 0, n)

\* strings.HasPrefix
HasPrefix(s, prefix) ==
    Len(s) >= Len(prefix) /\ SubSeq(s, 1, Len(prefix)) = prefix

\* isKnownHallucination matching the lowercased text without trimming it.
isKnownHallucination_Untrimmed(text) ==
    LET normalized == ToLower(text)
    IN  \/ normalized \in hallucinationPhrases
        \/ \E i \in 1..Len(hallucinationPrefixes) :
              HasPrefix(normalized, hallucinationPrefixes[i])

isKnownHallucination(text) ==
    LET normalized == ToLower(TrimSpace(text))
    IN  \/ normalized \in hallucinationPhrases
        \/ \E i \in 1..Len(hallucinationPrefixes) :
              HasPrefix(normalized, hallucinationPrefixes[i])

\* Token probabilities of the modelled segments, in percent.
TokenProbs == {0, 1, 2, 36, 37, 85, 90, 92, 100}

\* math.Log of a probability given in percent, in thousandths, rounded.
LnMilli(p) ==
    CASE p = 1 -> -4605 [] p = 2 -> -3912 [] p = 36 -> -1022 [] p = 37 -> -994
      [] p = 85 -> -163 [] p = 90 -> -105 [] p = 92 -> -83 [] p = 100 -> 0

RECURSIVE SumLn(_)
SumLn(tokens) ==
    IF tokens = <<>> THEN 0
    ELSE (IF Head(tokens) > 0 THEN LnMilli(Head(tokens)) ELSE 0) + SumLn(Tail(tokens))

\* The mean of ln(P) over the tokens with P > 0, in thousandths; 0 when there is none.
avgLogprob(segment) ==
    LET count == Cardinality({i \in 1..Len(segment.Tokens) : segment.Tokens[i] > 0})
    IN  IF Len(segment.Tokens) = 0 \/ count = 0 THEN Rat(0, 1)
        ELSE Rat(SumLn(segment.Tokens), count)

\* len(text)-1 over the number of distinct text[i:i+2], both taken on the bytes of text.
compressionRatio(text) ==
    LET b == Utf8(text)
        seen == {<<b[i], b[i + 1]>> : i \in 1..(Len(b) - 1)}
    IN  IF Len(b) = 0 \/ Cardinality(seen) = 0 THEN Rat(0, 1)
        ELSE Rat(Len(b) - 1, Cardinality(seen))

shouldSkipSegment(segment) ==
    LET text == TrimSpace(segment.Text)
    IN  IF segment.NoSpeechProb > noSpeechProbThreshold THEN TRUE
        ELSE IF RuneCount(text) < minSegmentChars THEN TRUE
        ELSE IF ~hasRealWords(text, minRealWords) THEN TRUE
        ELSE IF isKnownHallucination(text) THEN TRUE
        ELSE IF hasRepeatedChars(text) THEN TRUE
        ELSE IF RatLess(avgLogprob(segment), Rat(avgLogprobThreshold, 1)) THEN TRUE
        ELSE IF RatGreater(compressionRatio(text), Rat(compressionThreshold, 10)) THEN TRUE
        ELSE FALSE

whisperSegment(text, noSpeechProb, tokens) ==
    [Text |-> text, NoSpeechProb |-> noSpeechProb, Tokens |-> tokens]

\* Longest text of the exhaustively enumerated filter inputs.
MaxTextLen == 3

\* NUL, space, ".", "a", Cyrillic "а"
FilterAlphabet == {0, 32, 46, 97, 1072}

\* Texts of the repository's tests, and texts that reach the later checks of the filter.
SampleTexts == {
    <<84, 104, 97, 110, 107, 32, 121, 111, 117, 46>>,  \* "Thank you."
    <<84, 72, 65, 78, 75, 32, 89, 79, 85, 46>>,  \* "THANK YOU."
    <<111, 107>>,  \* "ok"
    <<83, 111, 109, 101, 32, 114, 101, 97, 108, 32, 116, 101, 120, 116, 32, 104, 101, 114, 101>>,  \* "Some real text here"
    <<84, 104, 97, 110, 107, 32, 121, 111, 117, 32, 115, 111, 32, 109, 117, 99, 104, 32, 102, 111, 114, 32, 106, 111, 105, 110, 105, 110, 103, 32, 117, 115, 32, 116, 111, 100, 97, 121, 32, 97, 110, 100, 32, 101, 118, 101, 114, 121, 32, 100, 97, 121, 46>>,  \* "Thank you so much for joining us today and every day."
    <<72, 101, 108, 108, 111, 44, 32, 116, 104, 105, 115, 32, 105, 115, 32, 97, 32, 116, 101, 115, 116, 32, 111, 102, 32, 116, 104, 101, 32, 116, 114, 97, 110, 115, 99, 114, 105, 112, 116, 105, 111, 110, 32, 115, 121, 115, 116, 101, 109, 46>>,  \* "Hello, this is a test of the transcription system."
    <<115, 111, 109, 101, 32, 114, 97, 110, 100, 111, 109, 32, 119, 111, 114, 100, 115, 32, 104, 101, 114, 101>>,  \* "some random words here"
    <<97, 97, 97, 97, 97, 97, 97, 97, 97, 97, 32, 115, 111, 109, 101, 116, 104, 105, 110, 103>>,  \* "aaaaaaaaaa something"
    <<116, 104, 101, 32, 97, 110, 100, 32, 102, 111, 114>>,  \* "the and for"
    <<97, 32, 98, 32, 99>>,  \* "a b c"
    <<116, 104, 101, 32, 116, 104, 101, 32, 116, 104, 101, 32, 116, 104, 101, 32, 116, 104, 101, 32, 116, 104, 101, 32, 116, 104, 101, 32, 116, 104, 101, 32, 116, 104, 101, 32, 116, 104, 101>>,  \* "the the the the the the the the the the"
    <<1044, 1103, 1082, 1091, 1102, 32, 1079, 1072, 32, 1087, 1077, 1088, 1077, 1075, 1083, 1103, 1076>>,  \* "Дякую за перегляд"
    <<0, 0, 0, 0, 97>>,  \* four NUL characters and "a"
    <<32, 32, 66, 121, 101, 46, 32, 32>>  \* "  Bye.  "
}

NoSpeechProbs == {10, 60, 61, 80}

TokenLists == { <<>>, <<0>>, <<90>>, <<90, 85, 92>>, <<1, 2, 1>>, <<36>>, <<37>>, <<0, 36>> }

FilterTexts == SeqsUpTo(FilterAlphabet, MaxTextLen) \cup SampleTexts

FilterInit ==
    /\ filterSeg \in { whisperSegment(t, p, k) :
                        <<t, p, k>> \in FilterTexts \X NoSpeechProbs \X TokenLists }
    /\ filterSkip = FALSE
    /\ filterPc = "called"
    /\ SegIdle /\ DedupIdle /\ MainIdle /\ CallIdle

\* The call shouldSkipSegment(filterSeg) runs to its return.
ShouldSkip ==
    /\ filterPc = "called"
    /\ filterSkip' = shouldSkipSegment(filterSeg)
    /\ filterPc' = "returned"
    /\ UNCHANGED <<filterSeg, segVars, dedupVars, mainVars, callVars>>

SpecFilter == FilterInit /\ [][ShouldSkip]_vars

(***************************************************************************)
(* Properties of shouldSkipSegment                                         *)
(***************************************************************************)
\* Some character occurs at least 5 times in a row in s.
FiveInARow(s) ==
    \E i \in 1..(Len(s) - 4) : \A k \in 1..4 : s[i + k] = s[i]

\* (number of characters - 1) over the number of distinct consecutive
\* 2-character substrings, 0 for a text of fewer than 2 characters.
CharBigramRatio(s) ==
    IF Len(s) < 2 THEN Rat(0, 1)
    ELSE Rat(Len(s) - 1, Cardinality({<<s[i], s[i + 1]>> : i \in 1..(Len(s) - 1)}))

\* Some whitespace-separated token has 3 or more characters and is no stopword.
HasARealWord(s) ==
    \E i \in 1..Len(Fields(s)) :
        Len(Fields(s)[i]) >= 3 /\ ToLower(Fields(s)[i]) \notin stopwords

\* The lowercased, trimmed text is a phrase of the table or begins with a prefix of it.
InLexicon(s) ==
    \/ ToLower(TrimSpace(s)) \in hallucinationPhrases
    \/ \E i \in 1..Len(hallucinationPrefixes) :
          HasPrefix(ToLower(TrimSpace(s)), hallucinationPrefixes[i])

\* The seven conditions of the filter, on the trimmed text.
AnyOfSeven(segment) ==
    LET text == TrimSpace(segment.Text)
    IN  \/ segment.NoSpeechProb > 60
        \/ Len(text) < 3
        \/ ~HasARealWord(text)
        \/ InLexicon(text)
        \/ FiveInARow(text)
        \/ RatLess(avgLogprob(segment), Rat(-1000, 1))
        \/ RatGreater(CharBigramRatio(text), Rat(24, 10))

\* C4: shouldSkipSegment returns true exactly when one of the seven conditions holds.
C4_SkipIffAnyOfSeven ==
    filterPc = "returned" => (filterSkip <=> AnyOfSeven(filterSeg))

(***************************************************************************)
(* wordErrorRate                                                           *)
(***************************************************************************)
Min(a, b) == IF a <= b THEN a ELSE b

\* The table dp of wordErrorRate for the word lists ref and hyp.
LevenshteinTable(ref, hyp) ==
    LET dp[i \in 0..Len(ref), j \in 0..Len(hyp)] ==
            IF j = 0 THEN i
            ELSE IF i = 0 THEN j
            ELSE Min(dp[i - 1, j] + 1,
                     Min(dp[i, j - 1] + 1,
                         dp[i - 1, j - 1] + (IF ref[i] = hyp[j] THEN 0 ELSE 1)))
    IN  dp

\* wordErrorRate dividing by the number of hypothesis words.
wordErrorRate_PerHypothesisWord(reference, hypothesis) ==
    LET ref == Fields(ToLower(reference))
        hyp == Fields(ToLower(hypothesis))
    IN  IF Len(ref) = 0
        THEN IF Len(hyp) = 0 THEN Rat(0, 1) ELSE Rat(1, 1)
        ELSE IF Len(hyp) = 0 THEN Rat(Len(ref), 1)
        ELSE Rat(LevenshteinTable(ref, hyp)[Len(ref), Len(hyp)], Len(hyp))

wordErrorRate(reference, hypothesis) ==
    LET ref == Fields(ToLower(reference))
        hyp == Fields(ToLower(hypothesis))
    IN  IF Len(ref) = 0
        THEN IF Len(hyp) = 0 THEN Rat(0, 1) ELSE Rat(1, 1)
        ELSE Rat(LevenshteinTable(ref, hyp)[Len(ref), Len(hyp)], Len(ref))

\* space, "A", "a", "b"
WerAlphabet == {32, 65, 97, 98}

\* Texts of TestWordErrorRate and texts of several words.
WerSamples == {
    <<104, 101, 108, 108, 111, 32, 119, 111, 114, 108, 100>>,  \* "hello world"
    <<104, 101, 108, 108, 111>>,  \* "hello"
    <<72, 101, 108, 108, 111, 32, 32, 87, 111, 114, 108, 100>>,  \* "Hello  World"
    <<97, 32, 98, 32, 97, 32, 98>>,  \* "a b a b"
    <<98, 32, 97>>,  \* "b a"
    <<116, 104, 101, 32, 99, 97, 116, 32, 115, 97, 116, 32, 111, 110, 32, 116, 104, 101, 32, 109, 97, 116>>,  \* "the cat sat on the mat"
    <<116, 104, 101, 32, 99, 97, 116, 32, 111, 110, 32, 97, 32, 109, 97, 116>>  \* "the cat on a mat"
}

WerTexts == SeqsUpTo(WerAlphabet, MaxTextLen) \cup WerSamples

\* What no call of a helper function touches.
CallFrame == UNCHANGED <<segVars, dedupVars, filterVars, mainVars>>

WerInit ==
    /\ callFn = "wordErrorRate"
    /\ callArgs \in WerTexts \X WerTexts
    /\ callRet = <<>>
    /\ callPc = "called"
    /\ SegIdle /\ DedupIdle /\ FilterIdle /\ MainIdle

\* The call wordErrorRate(callArgs[1], callArgs[2]) runs to its return.
WordErrorRate ==
    /\ callPc = "called" /\ callFn = "wordErrorRate"
    /\ callRet' = wordErrorRate(callArgs[1], callArgs[2])
    /\ callPc' = "returned"
    /\ UNCHANGED <<callFn, callArgs>>
    /\ CallFrame

SpecWER == WerInit /\ [][WordErrorRate]_vars

(***************************************************************************)
(* Properties of wordErrorRate                                             *)
(***************************************************************************)
\* The words of s: its maximal runs of non-space characters, lowercased.
LowerWords(s) == Fields([i \in 1..Len(s) |-> ToLowerRune(s[i])])

\* The least number of insertions, deletions and substitutions turning a into b.
RECURSIVE EditDistance(_, _)
EditDistance(a, b) ==
    IF a = <<>> THEN Len(b)
    ELSE IF b = <<>> THEN Len(a)
    ELSE IF Head(a) = Head(b) THEN EditDistance(Tail(a), Tail(b))
    ELSE 1 + Min(EditDistance(Tail(a), b),
                 Min(EditDistance(a, Tail(b)), EditDistance(Tail(a), Tail(b))))

WerReturned == callFn = "wordErrorRate" /\ callPc = "returned"

\* C14: wordErrorRate returns 0 when neither string has a word, 1 when only the
\* reference has none, and otherwise the word-level edit distance over the number
\* of reference words; it is 0 for equal word sequences and never negative.
C14_WordErrorRate ==
    WerReturned =>
        LET ref == LowerWords(callArgs[1])
            hyp == LowerWords(callArgs[2])
        IN  /\ (ref = <<>> /\ hyp = <<>>) => callRet = Rat(0, 1)
            /\ (ref = <<>> /\ hyp # <<>>) => callRet = Rat(1, 1)
            /\ ref # <<>> => callRet = Rat(EditDistance(ref, hyp), Len(ref))
            /\ ref = hyp => callRet.num = 0
            /\ callRet.num >= 0 /\ callRet.den > 0

\* C14 witness: a reference of two words against a hypothesis of four words gave a
\* rate above 1.
C14_Witness ==
    /\ WerReturned
    /\ Len(LowerWords(callArgs[1])) = 2 /\ Len(LowerWords(callArgs[2])) = 4
    /\ RatGreater(callRet, Rat(1, 1))

(***************************************************************************)
(* Calls of isKnownHallucination                                           *)
(***************************************************************************)
\* The upper-case form of a letter of Basic Latin, Latin-1 or Cyrillic.
ToUpperRune(c) ==
    IF c >= 97 /\ c <= 122 THEN c - 32
    ELSE IF c >= 224 /\ c <= 254 /\ c # 247 THEN c - 32
    ELSE IF c >= 1072 /\ c <= 1103 THEN c - 32
    ELSE IF c >= 1104 /\ c <= 1119 THEN c - 80
    ELSE IF c >= 1163 /\ c <= 1215 /\ c % 2 = 1 THEN c - 1
    ELSE c

ToUpper(s) == [i \in 1..Len(s) |-> ToUpperRune(s[i])]

\* Every second letter of s in upper case, the others in lower case.
MixedCase(s) ==
    [i \in 1..Len(s) |-> IF i % 2 = 1 THEN ToUpperRune(s[i]) ELSE ToLowerRune(s[i])]

\* s in another letter case, or with white space added at its ends.
CaseAndPaddingVariants(s) ==
    { ToUpper(s), ToLower(s), MixedCase(s),
      <<32>> \o s, s \o <<10>>, <<9, 32>> \o ToUpper(s) \o <<32, 160>> }

\* s with more text after it: "x", " and more", a space.
Extensions(s) ==
    { s \o <<120>>, s \o <<32, 97, 110, 100, 32, 109, 111, 114, 101>>, s \o <<32>> }

\* Texts of TestIsKnownHallucination, and two texts just short of a prefix.
LexSamples == {
    <<84, 104, 97, 110, 107, 32, 121, 111, 117, 46>>,  \* "Thank you."
    <<116, 104, 97, 110, 107, 32, 121, 111, 117, 46>>,  \* "thank you."
    <<84, 104, 97, 110, 107, 115, 32, 102, 111, 114, 32, 119, 97, 116, 99, 104, 105, 110, 103, 33>>,  \* "Thanks for watching!"
    <<66, 121, 101, 46>>,  \* "Bye."
    <<46, 46, 46>>,  \* "..."
    <<84, 104, 97, 110, 107, 32, 121, 111, 117, 32, 115, 111, 32, 109, 117, 99, 104, 32, 102, 111, 114, 32, 106, 111, 105, 110, 105, 110, 103, 32, 117, 115, 32, 116, 111, 100, 97, 121, 46>>,  \* "Thank you so much for joining us today."
    <<73, 39, 109, 32, 115, 112, 101, 97, 107, 105, 110, 103, 44, 32, 73, 39, 109, 32, 115, 112, 101, 97, 107, 105, 110, 103, 44, 32, 73, 39, 109, 32, 115, 112, 101, 97, 107, 105, 110, 103, 46>>,  \* "I'm speaking, I'm speaking, I'm speaking."
    <<83, 117, 98, 116, 105, 116, 108, 101, 115, 32, 98, 121, 32, 115, 111, 109, 101, 111, 110, 101>>,  \* "Subtitles by someone"
    <<72, 101, 108, 108, 111, 44, 32, 104, 111, 119, 32, 97, 114, 101, 32, 121, 111, 117, 63>>,  \* "Hello, how are you?"
    <<84, 104, 101, 32, 113, 117, 105, 99, 107, 32, 98, 114, 111, 119, 110, 32, 102, 111, 120>>,  \* "The quick brown fox"
    <<87, 101, 32, 110, 101, 101, 100, 32, 116, 111, 32, 100, 105, 115, 99, 117, 115, 115, 32, 116, 104, 101, 32, 112, 114, 111, 106, 101, 99, 116, 32, 116, 105, 109, 101, 108, 105, 110, 101, 46>>,  \* "We need to discuss the project timeline."
    <<1044, 1103, 1082, 1091, 1102, 32, 1079, 1072, 32, 1087, 1077, 1088, 1077, 1075, 1083, 1103, 1076>>,  \* "Дякую за перегляд"
    <<1055, 1110, 1076, 1087, 1080, 1089, 1091, 1081, 1090, 1077, 1089, 1100, 32, 1085, 1072, 32, 1085, 1072, 1096, 32, 1082, 1072, 1085, 1072, 1083>>,  \* "Підписуйтесь на наш канал"
    <<1057, 1091, 1073, 1090, 1080, 1090, 1088, 1080, 32, 1079, 1088, 1086, 1073, 1083, 1077, 1085, 1110, 32, 1082, 1080, 1084, 1086, 1089, 1100>>,  \* "Субтитри зроблені кимось"
    <<1057, 1087, 1072, 1089, 1080, 1073, 1086, 46>>,  \* "Спасибо."
    <<1055, 1088, 1086, 1076, 1086, 1083, 1078, 1077, 1085, 1080, 1077, 32, 1089, 1083, 1077, 1076, 1091, 1077, 1090, 46, 46, 46>>,  \* "Продолжение следует..."
    <<1057, 1090, 1072, 1074, 1100, 1090, 1077, 32, 1083, 1072, 1081, 1082, 1080, 32, 1080, 32, 1087, 1086, 1076, 1087, 1080, 1089, 1099, 1074, 1072, 1081, 1090, 1077, 1089, 1100>>,  \* "Ставьте лайки и подписывайтесь"
    <<115, 117, 98, 116, 105, 116, 108, 101>>,  \* "subtitle"
    <<73, 32, 103, 111, 116, 32, 116, 104, 105>>  \* "I got thi"
}

LexTexts ==
    hallucinationPhrases
    \cup { hallucinationPrefixes[i] : i \in 1..Len(hallucinationPrefixes) }
    \cup LexSamples
    \cup SeqsUpTo({32, 46, 66, 121}, MaxTextLen)

LexInit ==
    /\ callFn = "isKnownHallucination"
    /\ callArgs \in UNION { { <<t, u>> : u \in CaseAndPaddingVariants(t) \cup Extensions(t) } :
                             t \in LexTexts }
    /\ callRet = <<>>
    /\ callPc = "called"
    /\ SegIdle /\ DedupIdle /\ FilterIdle /\ MainIdle

\* isKnownHallucination is called on a text and on a variant of it; both calls return.
IsKnownHallucination ==
    /\ callPc = "called" /\ callFn = "isKnownHallucination"
    /\ callRet' = << isKnownHallucination(callArgs[1]), isKnownHallucination(callArgs[2]) >>
    /\ callPc' = "returned"
    /\ UNCHANGED <<callFn, callArgs>>
    /\ CallFrame

SpecLexicon == LexInit /\ [][IsKnownHallucination]_vars

(***************************************************************************)
(* Properties of isKnownHallucination                                      *)
(***************************************************************************)
LexReturned == callFn = "isKnownHallucination" /\ callPc = "returned"

\* s begins with one of the hallucination prefixes as the table spells it.
ExtendsAPrefix(s) ==
    \E i \in 1..Len(hallucinationPrefixes) :
        /\ Len(s) >= Len(hallucinationPrefixes[i])
        /\ \A k \in 1..Len(hallucinationPrefixes[i]) : s[k] = hallucinationPrefixes[i][k]

\* C15: isKnownHallucination(text) is true exactly when the lowercased, trimmed text
\* is a phrase of the table or begins with a prefix of it; a change of letter case
\* or white space added at the ends does not change the result; a text that
\* extends a prefix is flagged.
C15_LexiconMatch ==
    LexReturned =>
        /\ callRet[1] = InLexicon(callArgs[1])
        /\ callRet[2] = InLexicon(callArgs[2])
        /\ callArgs[2] \in CaseAndPaddingVariants(callArgs[1]) => callRet[2] = callRet[1]
        /\ ExtendsAPrefix(callArgs[2]) => callRet[2]

\* C15 witness: a prefix of the table written in upper case between white space,
\* which is no phrase of the table, was flagged like the prefix itself.
C15_Witness ==
    /\ LexReturned
    /\ ExtendsAPrefix(callArgs[1])
    /\ callArgs[2] = <<9, 32>> \o ToUpper(callArgs[1]) \o <<32, 160>>
    /\ callArgs[2] # callArgs[1]
    /\ ToLower(TrimSpace(callArgs[2])) \notin hallucinationPhrases
    /\ callRet = <<TRUE, TRUE>>

(***************************************************************************)
(* Calls of hasRepeatedChars                                               *)
(***************************************************************************)
\* Longest text of the exhaustively enumerated inputs of hasRepeatedChars.
MaxRunLen == 6

\* Texts of TestHasRepeatedChars.
RepeatSamples == {
    <<97, 97, 97, 97, 97, 97>>,  \* "aaaaaa"
    <<104, 97, 104, 97, 104, 97, 104, 97, 104, 97, 104, 97>>,  \* "hahahahahaha"
    <<110, 111, 114, 109, 97, 108, 32, 116, 101, 120, 116>>,  \* "normal text"
    <<111, 111, 111, 111, 111, 104, 32, 110, 111>>  \* "oooooh no"
}

\* NUL, "a", Cyrillic "а"
RepeatTexts == SeqsUpTo({0, 97, 1072}, MaxRunLen) \cup RepeatSamples

RepeatInit ==
    /\ callFn = "hasRepeatedChars"
    /\ callArgs \in { <<t>> : t \in RepeatTexts }
    /\ callRet = <<>>
    /\ callPc = "called"
    /\ SegIdle /\ DedupIdle /\ FilterIdle /\ MainIdle

\* The call hasRepeatedChars(callArgs[1]) runs to its return.
HasRepeatedChars ==
    /\ callPc = "called" /\ callFn = "hasRepeatedChars"
    /\ callRet' = hasRepeatedChars(callArgs[1])
    /\ callPc' = "returned"
    /\ UNCHANGED <<callFn, callArgs>>
    /\ CallFrame

SpecRepeat == RepeatInit /\ [][HasRepeatedChars]_vars

\* C16: hasRepeatedChars(s) is true exactly when some character occurs at least
\* 5 times in a row in s.
C16_FiveInARow ==
    (callFn = "hasRepeatedChars" /\ callPc = "returned")
    => (callRet <=> FiveInARow(callArgs[1]))

(***************************************************************************)
(* Calls of compressionRatio                                               *)
(***************************************************************************)
\* Texts of TestCompressionRatio, and repetitive texts outside ASCII.
RatioSamples == {
    <<116, 104, 101, 32, 116, 104, 101, 32, 116, 104, 101, 32, 116, 104, 101, 32, 116, 104, 101, 32, 116, 104, 101, 32, 116, 104, 101, 32, 116, 104, 101, 32, 116, 104, 101, 32, 116, 104, 101>>,  \* "the the the the the the the the the the"
    <<84, 104, 101, 32, 113, 117, 105, 99, 107, 32, 98, 114, 111, 119, 110, 32, 102, 111, 120, 32, 106, 117, 109, 112, 115, 32, 111, 118, 101, 114, 32, 116, 104, 101, 32, 108, 97, 122, 121, 32, 100, 111, 103>>,  \* "The quick brown fox jumps over the lazy dog"
    <<1097, 1077, 32, 1097, 1077, 32, 1097, 1077, 32, 1097, 1077>>,  \* "ще ще ще ще"
    <<8230, 8230, 8230>>  \* "………"
}

\* "a", "b", Cyrillic "а", the ellipsis character
RatioTexts == SeqsUpTo({97, 98, 1072, 8230}, MaxTextLen) \cup RatioSamples

RatioInit ==
    /\ callFn = "compressionRatio"
    /\ callArgs \in { <<t>> : t \in RatioTexts }
    /\ callRet = <<>>
    /\ callPc = "called"
    /\ SegIdle /\ DedupIdle /\ FilterIdle /\ MainIdle

\* The call compressionRatio(callArgs[1]) runs to its return.
CompressionRatio ==
    /\ callPc = "called" /\ callFn = "compressionRatio"
    /\ callRet' = compressionRatio(callArgs[1])
    /\ callPc' = "returned"
    /\ UNCHANGED <<callFn, callArgs>>
    /\ CallFrame

SpecRatio == RatioInit /\ [][CompressionRatio]_vars

\* a = b for fractions.
RatEqual(a, b) == a.num * b.den = b.num * a.den

\* C17: for a text of at least 2 characters compressionRatio(text) is the number of
\* characters minus 1 over the number of distinct 2-character substrings.
C17_CharacterBigrams ==
    (callFn = "compressionRatio" /\ callPc = "returned" /\ Len(callArgs[1]) >= 2)
    => RatEqual(callRet, CharBigramRatio(callArgs[1]))

(***************************************************************************)
(* Calls of hasRealWords, directly and from shouldSkipSegment               *)
(***************************************************************************)
\* Largest number of words asked for in a modelled call of hasRealWords.
MaxWanted == 3

\* Texts of TestHasRealWords, and texts of stopwords, short words and real words.
RealWordSamples == {
    <<72, 101, 108, 108, 111, 32, 119, 111, 114, 108, 100>>,  \* "Hello world"
    <<116, 104, 101, 32, 97, 110, 100, 32, 102, 111, 114>>,  \* "the and for"
    <<97, 32, 98, 32, 99>>,  \* "a b c"
    <<100, 105, 115, 99, 117, 115, 115, 105, 111, 110, 32, 116, 111, 100, 97, 121>>,  \* "discussion today"
    <<84, 104, 101, 32, 99, 97, 116, 32, 65, 78, 68, 32, 121, 111, 117>>,  \* "The cat AND you"
    <<97, 98, 99, 32, 100, 101, 102, 32, 103, 104, 105>>,  \* "abc def ghi"
    <<32, 32, 84, 72, 73, 83, 32, 116, 104, 97, 116, 32, 32, 119, 105, 116, 104, 9, 102, 114, 111, 109, 32>>,  \* "  THIS that  with\tfrom "
    <<1076, 1103, 32, 1076, 1103>>,  \* "дя дя"
    <<1076, 1103, 1082, 1091, 1102, 32, 1074, 1072, 1084, 32, 116, 104, 101>>,  \* "дякую вам the"
    <<111, 107, 32, 110, 111>>,  \* "ok no"
    <<97, 98, 99>>  \* "abc"
}

\* space, "a", Cyrillic "д"
RealWordTexts == SeqsUpTo({32, 97, 1076}, MaxTextLen) \cup RealWordSamples

\* Either hasRealWords is called on a text and a count of at least 1 (the program
\* passes minRealWords), or shouldSkipSegment is called on a segment with such a text.
RealWordsInit ==
    /\ \/ /\ callFn = "hasRealWords"
          /\ callArgs \in RealWordTexts \X (1..MaxWanted)
          /\ callRet = <<>>
          /\ callPc = "called"
          /\ FilterIdle
       \/ /\ filterSeg \in { whisperSegment(t, np, k) :
                              <<t, np, k>> \in RealWordTexts \X {10, 80} \X { <<90>>, <<1, 2, 1>> } }
          /\ filterSkip = FALSE
          /\ filterPc = "called"
          /\ CallIdle
    /\ SegIdle /\ DedupIdle /\ MainIdle

\* The call hasRealWords(callArgs[1], callArgs[2]) runs to its return.
HasRealWords ==
    /\ callPc = "called" /\ callFn = "hasRealWords"
    /\ callRet' = hasRealWords(callArgs[1], callArgs[2])
    /\ callPc' = "returned"
    /\ UNCHANGED <<callFn, callArgs>>
    /\ CallFrame

SpecRealWords == RealWordsInit /\ [][HasRealWords \/ ShouldSkip]_vars

\* The number of whitespace-separated tokens of s that have 3 or more characters
\* and are, in lower case, no stopword.
RealTokenCount(s) ==
    Cardinality({ i \in 1..Len(Fields(s)) :
                    Len(Fields(s)[i]) >= 3 /\ ToLower(Fields(s)[i]) \notin stopwords })

DurationInputs ==
    { h * Hour + m * Minute + sec * Second + ms * Millisecond + t :
        <<h, m, sec, ms, t>> \in {0, 1, 99, 100, 101} \X {0, 59} \X {0, 7, 59}
                                 \X {0, 5, 999} \X {0, Millisecond - 1} }
    \cup { -1, -Millisecond, -Hour }

DurationInit ==
    /\ callFn = "formatDuration"
    /\ callArgs \in { <<d>> : d \in DurationInputs }
    /\ callRet = <<>>
    /\ callPc = "called"
    /\ SegIdle /\ DedupIdle /\ FilterIdle /\ MainIdle

\* formatDuration(callArgs[1]) returns a string and parseDuration returns its value.
FormatAndParse ==
    /\ callPc = "called" /\ callFn = "formatDuration"
    /\ callRet' = << formatDuration(callArgs[1]), parseDuration(formatDuration(callArgs[1])) >>
    /\ callPc' = "returned"
    /\ UNCHANGED <<callFn, callArgs>>
    /\ CallFrame

SpecDuration == DurationInit /\ [][FormatAndParse]_vars

(***************************************************************************)
(* Properties of formatDuration and parseDuration                          *)
(***************************************************************************)
IsDigit(c) == c >= 48 /\ c <= 57

\* The value of the two digits of s at positions i and i + 1.
TwoDigits(s, i) == (s[i] - 48) * 10 + (s[i + 1] - 48)

\* s reads H..HH:MM:SS.mmm: digits, with at least two for the hours, minutes and
\* seconds in 0..59.
WellFormedTime(s) ==
    LET n == Len(s)
    IN  /\ n >= 12
        /\ s[n - 3] = 46 /\ s[n - 6] = 58 /\ s[n - 9] = 58
        /\ \A i \in (1..n) \ {n - 3, n - 6, n - 9} : IsDigit(s[i])
        /\ TwoDigits(s, n - 8) <= 59
        /\ TwoDigits(s, n - 5) <= 59

DurationReturned == callFn = "formatDuration" /\ callPc = "returned"

\* C19: formatDuration writes zero-padded HH:MM:SS.mmm with minutes and seconds in
\* 0..59, and parseDuration of it is the duration cut to whole milliseconds, 0 for
\* a negative duration.
C19_FormatParseRoundTrip ==
    DurationReturned =>
        /\ WellFormedTime(callRet[1])
        /\ callArgs[1] >= 0
           => callRet[2] = callArgs[1] - (callArgs[1] % Millisecond)
        /\ callArgs[1] < 0 => callRet[2] = 0

\* C19 witness: a duration over 100 hours that is no whole number of milliseconds
\* came back cut to the millisecond.
C19_Witness ==
    /\ DurationReturned
    /\ callArgs[1] > 100 * Hour
    /\ callArgs[1] % Millisecond # 0
    /\ Len(callRet[1]) = 13
    /\ callRet[2] = callArgs[1] - (callArgs[1] % Millisecond)
    /\ callRet[2] > 100 * Hour

(***************************************************************************)
(* segmentByVAD                                                            *)
(***************************************************************************)
sampleRate == 16000
hopSize == 256
silenceGap == 31
paddingSamps == 3200

\* Largest number of whole frames of a modelled buffer.
MaxFrames == 34
\* The samples left over after the last whole frame.
Remainders == {0, 100}

BufferLens == {n * hopSize + r : n \in 0..MaxFrames, r \in Remainders}

totalFrames == samplesLen \div hopSize

rawSegment(startFrame, endFrame) == [startFrame |-> startFrame, endFrame |-> endFrame]

\* An audioSegment: samples[lo:hi] of the buffer, startSec = startSecNum / sampleRate.
audioSegment(lo, hi, num) == [lo |-> lo, hi |-> hi, startSecNum |-> num]

\* PadStart without the clamp at 0.
PadStart_NoClamp(seg) == seg.startFrame * hopSize - paddingSamps

\* The clamped start sample of a raw segment's chunk.
PadStart(seg) ==
    LET startSamp == seg.startFrame * hopSize - paddingSamps
    IN  IF startSamp < 0 THEN 0 ELSE startSamp

\* PadEnd with twice the padding after the run.
PadEnd_DoublePadding(seg, len) ==
    LET endSamp == seg.endFrame * hopSize + hopSize + 2 * paddingSamps
    IN  IF endSamp > len THEN len ELSE endSamp

\* The clamped end sample of a raw segment's chunk.
PadEnd(seg, len) ==
    LET endSamp == seg.endFrame * hopSize + hopSize + paddingSamps
    IN  IF endSamp > len THEN len ELSE endSamp

\* BuildResult without the whole-buffer chunk for an input with no raw segment.
BuildResult_NoFallback(segs, len) ==
    [i \in 1..Len(segs) |->
        audioSegment(PadStart(segs[i]), PadEnd(segs[i], len), PadStart(segs[i]))]

\* The tail of segmentByVAD: the whole buffer when no raw segment was found,
\* otherwise one padded, clamped chunk per raw segment.
BuildResult(segs, len) ==
    IF Len(segs) = 0
    THEN << audioSegment(0, len, 0) >>
    ELSE [i \in 1..Len(segs) |->
            audioSegment(PadStart(segs[i]), PadEnd(segs[i], len), PadStart(segs[i]))]

\* Vad.Close destroying the handle without looking at instance.
VadClose_NoNilCheck ==
    vadInstance' = "nil" /\ vadDestroyed' = vadDestroyed + 1

\* Vad.Close: destroys the native handle once, a second call does nothing.
VadClose ==
    IF vadInstance = "live"
    THEN vadInstance' = "nil" /\ vadDestroyed' = vadDestroyed + 1
    ELSE UNCHANGED <<vadInstance, vadDestroyed>>

\* What no step of segmentByVAD touches.
SegFrame == UNCHANGED <<dedupVars, filterVars, mainVars, callVars>>

SegInit ==
    /\ samplesLen \in BufferLens
    /\ segPc = "start"
    /\ f = 0
    /\ inSpeech = FALSE
    /\ speechStart = 0
    /\ silenceCount = 0
    /\ segments = <<>>
    /\ segResult = <<>>
    /\ segErr = FALSE
    /\ vadInstance = "nil"
    /\ vadDestroyed = 0
    /\ speechSeen = FALSE
    /\ lastSpeech = -1 /\ speechRuns = 0 /\ bridged = FALSE /\ tracked = -2
    /\ vadCreated = 0 /\ lateCalls = <<>>
    /\ DedupIdle /\ FilterIdle /\ MainIdle /\ CallIdle

\* NewVad succeeds: the handle is live and Close is deferred.
NewVadOk ==
    /\ segPc = "start"
    /\ segPc' = "loop"
    /\ vadInstance' = "live"
    /\ vadCreated' = vadCreated + 1
    /\ UNCHANGED <<samplesLen, f, inSpeech, speechStart, silenceCount, segments,
                   segResult, segErr, vadDestroyed, speechSeen, lastSpeech,
                   speechRuns, bridged, tracked, lateCalls>>
    /\ SegFrame

\* NewVad fails: segmentByVAD returns (nil, err) before any handle exists.
NewVadFail ==
    /\ segPc = "start"
    /\ segPc' = "returned"
    /\ segErr' = TRUE
    /\ segResult' = <<>>
    /\ UNCHANGED <<samplesLen, f, inSpeech, speechStart, silenceCount, segments,
                   vadInstance, vadDestroyed, speechSeen, lastSpeech,
                   speechRuns, bridged, tracked, vadCreated, lateCalls>>
    /\ SegFrame

\* FrameSpeech leaving the silence counter as it is.
FrameSpeech_NoReset ==
    /\ segPc = "loop" /\ f < totalFrames
    /\ vadInstance = "live"
    /\ IF ~inSpeech
       THEN speechStart' = f /\ inSpeech' = TRUE
       ELSE UNCHANGED <<speechStart, inSpeech>>
    /\ f' = f + 1
    /\ speechSeen' = TRUE
    /\ lastSpeech' = f
    /\ speechRuns' = IF lastSpeech < 0 \/ f - lastSpeech - 1 >= silenceGap
                     THEN speechRuns + 1 ELSE speechRuns
    /\ bridged' = (bridged \/ (lastSpeech >= 0 /\ f - lastSpeech - 1 = silenceGap - 1))
    /\ tracked' \in (IF tracked = -1 THEN {-1, f} ELSE {tracked})
    /\ UNCHANGED <<samplesLen, segPc, silenceCount, segments, segResult, segErr,
                   vadInstance, vadDestroyed, vadCreated, lateCalls>>
    /\ SegFrame

\* One iteration of the frame loop in which vad.Process classified the frame as speech.
FrameSpeech ==
    /\ segPc = "loop" /\ f < totalFrames
    /\ vadInstance = "live"
    /\ IF ~inSpeech
       THEN speechStart' = f /\ inSpeech' = TRUE
       ELSE UNCHANGED <<speechStart, inSpeech>>
    /\ silenceCount' = 0
    /\ f' = f + 1
    /\ speechSeen' = TRUE
    /\ lastSpeech' = f
    /\ speechRuns' = IF lastSpeech < 0 \/ f - lastSpeech - 1 >= silenceGap
                     THEN speechRuns + 1 ELSE speechRuns
    /\ bridged' = (bridged \/ (lastSpeech >= 0 /\ f - lastSpeech - 1 = silenceGap - 1))
    /\ tracked' \in (IF tracked = -1 THEN {-1, f} ELSE {tracked})
    /\ UNCHANGED <<samplesLen, segPc, segments, segResult, segErr,
                   vadInstance, vadDestroyed, vadCreated, lateCalls>>
    /\ SegFrame

\* FrameSilence closing a run at the current frame.
FrameSilence_EndAtCurrent ==
    /\ segPc = "loop" /\ f < totalFrames
    /\ vadInstance = "live"
    /\ IF inSpeech
       THEN IF silenceCount + 1 >= silenceGap
            THEN /\ segments' = Append(segments, rawSegment(speechStart, f))
                 /\ inSpeech' = FALSE
                 /\ silenceCount' = 0
            ELSE /\ silenceCount' = silenceCount + 1
                 /\ UNCHANGED <<segments, inSpeech>>
       ELSE UNCHANGED <<segments, inSpeech, silenceCount>>
    /\ f' = f + 1
    /\ UNCHANGED <<samplesLen, segPc, speechStart, segResult, segErr,
                   vadInstance, vadDestroyed, speechSeen, lastSpeech,
                   speechRuns, bridged, tracked, vadCreated, lateCalls>>
    /\ SegFrame

\* One iteration of the frame loop in which vad.Process classified the frame as non-speech.
FrameSilence ==
    /\ segPc = "loop" /\ f < totalFrames
    /\ vadInstance = "live"
    /\ IF inSpeech
       THEN IF silenceCount + 1 >= silenceGap
            THEN /\ segments' = Append(segments, rawSegment(speechStart, f - (silenceCount + 1)))
                 /\ inSpeech' = FALSE
                 /\ silenceCount' = 0
            ELSE /\ silenceCount' = silenceCount + 1
                 /\ UNCHANGED <<segments, inSpeech>>
       ELSE UNCHANGED <<segments, inSpeech, silenceCount>>
    /\ f' = f + 1
    /\ UNCHANGED <<samplesLen, segPc, speechStart, segResult, segErr,
                   vadInstance, vadDestroyed, speechSeen, lastSpeech,
                   speechRuns, bridged, tracked, vadCreated, lateCalls>>
    /\ SegFrame

\* FrameError returning the chunks of the runs closed so far along with the error.
FrameError_PartialResult ==
    /\ segPc = "loop" /\ f < totalFrames
    /\ segPc' = "returned"
    /\ segErr' = TRUE
    /\ segResult' = BuildResult(segments, samplesLen)
    /\ VadClose
    /\ UNCHANGED <<samplesLen, f, inSpeech, speechStart, silenceCount, segments,
                   speechSeen, lastSpeech,
                   speechRuns, bridged, tracked, vadCreated, lateCalls>>
    /\ SegFrame

\* vad.Process returns an error: segmentByVAD returns (nil, err); the deferred Close runs.
FrameError ==
    /\ segPc = "loop" /\ f < totalFrames
    /\ segPc' = "returned"
    /\ segErr' = TRUE
    /\ segResult' = <<>>
    /\ VadClose
    /\ UNCHANGED <<samplesLen, f, inSpeech, speechStart, silenceCount, segments,
                   speechSeen, lastSpeech,
                   speechRuns, bridged, tracked, vadCreated, lateCalls>>
    /\ SegFrame

\* SegReturn ending the open run at the last speech frame the loop counted.
SegReturn_EndAtLastSpeech ==
    /\ segPc = "loop" /\ f >= totalFrames
    /\ LET segs == IF inSpeech
                   THEN Append(segments,
                               rawSegment(speechStart, totalFrames - 1 - silenceCount))
                   ELSE segments
       IN  /\ segments' = segs
           /\ segResult' = BuildResult(segs, samplesLen)
    /\ segPc' = "returned"
    /\ VadClose
    /\ UNCHANGED <<samplesLen, f, inSpeech, speechStart, silenceCount, segErr,
                   speechSeen, lastSpeech,
                   speechRuns, bridged, tracked, vadCreated, lateCalls>>
    /\ SegFrame

\* SegReturn without the append of the run that is open after the last frame.
SegReturn_DropOpenRun ==
    /\ segPc = "loop" /\ f >= totalFrames
    /\ segResult' = BuildResult(segments, samplesLen)
    /\ segPc' = "returned"
    /\ VadClose
    /\ UNCHANGED <<samplesLen, f, inSpeech, speechStart, silenceCount, segments, segErr,
                   speechSeen, lastSpeech,
                   speechRuns, bridged, tracked, vadCreated, lateCalls>>
    /\ SegFrame

\* After the loop: close the open run, build the chunks, return; the deferred Close runs.
SegReturn ==
    /\ segPc = "loop" /\ f >= totalFrames
    /\ LET segs == IF inSpeech
                   THEN Append(segments, rawSegment(speechStart, totalFrames - 1))
                   ELSE segments
       IN  /\ segments' = segs
           /\ segResult' = BuildResult(segs, samplesLen)
    /\ segPc' = "returned"
    /\ VadClose
    /\ UNCHANGED <<samplesLen, f, inSpeech, speechStart, silenceCount, segErr,
                   speechSeen, lastSpeech,
                   speechRuns, bridged, tracked, vadCreated, lateCalls>>
    /\ SegFrame

SegNext == NewVadOk \/ NewVadFail \/ FrameSpeech \/ FrameSilence \/ FrameError \/ SegReturn

SpecSeg == SegInit /\ [][SegNext]_vars

\* segmentByVAD with one of the frames classified as speech, any one, kept in tracked.
TrackInit ==
    /\ samplesLen \in BufferLens
    /\ segPc = "start"
    /\ f = 0
    /\ inSpeech = FALSE
    /\ speechStart = 0
    /\ silenceCount = 0
    /\ segments = <<>>
    /\ segResult = <<>>
    /\ segErr = FALSE
    /\ vadInstance = "nil"
    /\ vadDestroyed = 0
    /\ speechSeen = FALSE
    /\ lastSpeech = -1 /\ speechRuns = 0 /\ bridged = FALSE /\ tracked = -1
    /\ vadCreated = 0 /\ lateCalls = <<>>
    /\ DedupIdle /\ FilterIdle /\ MainIdle /\ CallIdle

SpecTrack == TrackInit /\ [][SegNext]_vars

\* Largest number of calls made on the Vad after segmentByVAD returned.
MaxLateCalls == 2

\* Vad.Close is called on the Vad that segmentByVAD has closed.
LateClose ==
    /\ segPc = "returned" /\ vadCreated >= 1 /\ Len(lateCalls) < MaxLateCalls
    /\ VadClose
    /\ lateCalls' = Append(lateCalls, "Close")
    /\ UNCHANGED <<samplesLen, segPc, f, inSpeech, speechStart, silenceCount, segments,
                   segResult, segErr, speechSeen, lastSpeech,
                   speechRuns, bridged, tracked, vadCreated>>
    /\ SegFrame

\* Vad.Process is called on the Vad that segmentByVAD has closed: with instance nil it
\* returns "vad: instance closed" before ten_vad_process, otherwise the call goes to
\* the native engine.
LateProcess ==
    /\ segPc = "returned" /\ vadCreated >= 1 /\ Len(lateCalls) < MaxLateCalls
    /\ lateCalls' = Append(lateCalls, IF vadInstance = "nil" THEN "Process: instance closed"
                                      ELSE "Process: ten_vad_process")
    /\ UNCHANGED <<samplesLen, segPc, f, inSpeech, speechStart, silenceCount, segments,
                   segResult, segErr, vadInstance, vadDestroyed, speechSeen, lastSpeech,
                   speechRuns, bridged, tracked, vadCreated>>
    /\ SegFrame

\* segmentByVAD, and then calls on its Vad.
SpecVad == SegInit /\ [][SegNext \/ LateClose \/ LateProcess]_vars

(***************************************************************************)
(* Properties of segmentByVAD                                              *)
(***************************************************************************)
SegReturnedOk == segPc = "returned" /\ ~segErr

\* C2: when no frame was classified as speech, the result is exactly one chunk,
\* the whole buffer samples[0:len], with start offset 0.
C2_SilentBufferOneChunk ==
    (SegReturnedOk /\ ~speechSeen)
    => /\ Len(segResult) = 1
       /\ segResult[1].lo = 0
       /\ segResult[1].hi = samplesLen
       /\ segResult[1].startSecNum = 0

\* C2 witness: a buffer of at least silenceGap whole frames plus a partial frame,
\* every frame classified as non-speech, was returned as one chunk.
C2_Witness ==
    /\ SegReturnedOk /\ ~speechSeen
    /\ totalFrames >= silenceGap /\ samplesLen % hopSize # 0
    /\ Len(segResult) = 1

\* C3: every returned chunk has 0 <= start sample <= end sample <= len(buffer),
\* and the chunks' start offsets are non-decreasing in output order.
C3_ChunksWithinBuffer ==
    SegReturnedOk
    => /\ \A i \in 1..Len(segResult) :
             /\ 0 <= segResult[i].lo
             /\ segResult[i].lo <= segResult[i].hi
             /\ segResult[i].hi <= samplesLen
       /\ \A i \in 1..(Len(segResult) - 1) :
             segResult[i].startSecNum <= segResult[i + 1].startSecNum

\* C3 witness: two chunks, the first one's padded start clamped at 0 and the
\* second one's padded end clamped at len(buffer).
C3_Witness ==
    /\ SegReturnedOk /\ Len(segResult) = 2 /\ Len(segments) = 2
    /\ segments[1].startFrame * hopSize - paddingSamps < 0
    /\ segResult[1].lo = 0
    /\ segments[2].endFrame * hopSize + hopSize + paddingSamps > samplesLen
    /\ segResult[2].hi = samplesLen

\* C11: when segmentByVAD returns an error it returns no chunk at all, however
\* many raw speech runs were closed before the failing frame.
C11_ErrorNoChunks ==
    (segPc = "returned" /\ segErr) => segResult = <<>>

\* C11 witness: vad.Process failed on a frame after a speech run had been closed,
\* and nothing was returned.
C11_Witness ==
    /\ segPc = "returned" /\ segErr
    /\ vadDestroyed = 1
    /\ Len(segments) >= 1
    /\ segResult = <<>>

\* A step of the frame loop that closes the open run: it appends a raw segment.
RunClosed == segPc = "loop" /\ segPc' = "loop" /\ Len(segments') = Len(segments) + 1

\* A step of the frame loop on a non-speech frame that is the silenceGap-th in a row
\* after speech.
GapReached ==
    /\ segPc = "loop" /\ segPc' = "loop"
    /\ f' = f + 1 /\ lastSpeech' # f
    /\ inSpeech /\ lastSpeech = f - silenceGap

\* C20: the frame loop closes the open run exactly on the frame f that is the
\* silenceGap-th non-speech frame in a row; the raw segment appended is
\* [speechStart, f - silenceGap], ending at the last frame classified as speech,
\* and the loop is then outside speech with silenceCount = 0.
C20_RunClosedAtGap ==
    [][ /\ RunClosed <=> GapReached
        /\ RunClosed =>
              /\ segments' = Append(segments, rawSegment(speechStart, f - silenceGap))
              /\ f - silenceGap = lastSpeech
              /\ ~inSpeech' /\ silenceCount' = 0 ]_vars

\* C20 witness: a run of several speech frames has just been closed by the
\* silenceGap-th non-speech frame after it.
C20_Witness ==
    /\ segPc = "loop" /\ Len(segments) = 1
    /\ ~inSpeech /\ silenceCount = 0
    /\ segments[1].startFrame < segments[1].endFrame
    /\ segments[1].endFrame = lastSpeech
    /\ f = lastSpeech + silenceGap + 1

\* A step of the frame loop on a speech frame that follows the previous speech frame
\* after fewer than silenceGap non-speech frames.
SpeechAfterShortGap ==
    /\ segPc = "loop" /\ segPc' = "loop"
    /\ lastSpeech' = f /\ f' = f + 1
    /\ lastSpeech >= 0 /\ f - lastSpeech - 1 < silenceGap

\* C21: a speech frame after fewer than silenceGap non-speech frames finds the run
\* still open, leaves it open with the same start and no segment appended, and
\* sets silenceCount to 0; the number of raw segments at the return is the number
\* of speech runs separated by at least silenceGap non-speech frames.
C21_ShortGapKeepsRun ==
    /\ [][ SpeechAfterShortGap =>
              /\ inSpeech /\ inSpeech'
              /\ speechStart' = speechStart
              /\ segments' = segments
              /\ silenceCount' = 0 ]_vars
    /\ [](segPc = "loop" => Len(segments) + (IF inSpeech THEN 1 ELSE 0) = speechRuns)
    /\ []((segPc = "returned" /\ ~segErr) => Len(segments) = speechRuns)

\* C21 witness: speech came back after silenceGap - 1 non-speech frames, the run went
\* on, and the call returned one raw segment reaching past the dropout.
C21_Witness ==
    /\ segPc = "returned" /\ ~segErr
    /\ bridged /\ speechRuns = 1
    /\ Len(segments) = 1
    /\ segments[1].endFrame - segments[1].startFrame >= silenceGap
    /\ segments[1].endFrame = lastSpeech

\* The step in which segmentByVAD returns after the last frame.
StreamEnds == segPc = "loop" /\ segPc' = "returned" /\ ~segErr'

\* C22: when the frames end with a run open, the run is appended as the last raw
\* segment with end frame totalFrames - 1, whatever number of non-speech frames
\* (fewer than silenceGap) came last; when no run is open nothing is appended, and
\* no speech frame lies after the last raw segment.
C22_OpenRunClosedAtEnd ==
    /\ [][ StreamEnds =>
              /\ inSpeech => segments' = Append(segments,
                                                rawSegment(speechStart, totalFrames - 1))
              /\ ~inSpeech => segments' = segments ]_vars
    /\ []((segPc = "returned" /\ ~segErr /\ speechSeen) =>
              /\ Len(segments) >= 1
              /\ segments[Len(segments)].startFrame <= lastSpeech
              /\ lastSpeech <= segments[Len(segments)].endFrame)

\* C22 witness: the frames ended after silenceGap - 1 non-speech frames with the run
\* still open, and the run was emitted up to the final frame.
C22_Witness ==
    /\ segPc = "returned" /\ ~segErr
    /\ inSpeech /\ silenceCount = silenceGap - 1
    /\ lastSpeech = totalFrames - silenceGap
    /\ segments[Len(segments)] = rawSegment(speechStart, totalFrames - 1)

\* C23: the sample ranges of the returned chunks do not overlap: each chunk starts
\* at or after the end of the chunk before it.
C23_ChunksDisjoint ==
    SegReturnedOk =>
        \A i \in 1..(Len(segResult) - 1) : segResult[i + 1].lo >= segResult[i].hi

\* C23 witness: two runs as close as the silence gap allows gave two chunks whose
\* paddings leave silenceGap * hopSize - 2 * paddingSamps samples between them.
C23_Witness ==
    /\ SegReturnedOk /\ Len(segResult) = 2 /\ Len(segments) = 2
    /\ segments[2].startFrame = segments[1].endFrame + silenceGap + 1
    /\ segResult[2].lo - segResult[1].hi = silenceGap * hopSize - 2 * paddingSamps

\* C24: once segmentByVAD has returned, every handle it created has been destroyed,
\* exactly once, and stays so when Close is called again; at no time are more
\* handles destroyed than created; no Process call after the return reaches
\* ten_vad_process.
C24_HandleClosedOnce ==
    /\ vadDestroyed <= vadCreated
    /\ segPc = "loop" => (vadInstance = "live" /\ vadDestroyed = 0)
    /\ segPc = "returned" => (vadInstance = "nil" /\ vadDestroyed = vadCreated)
    /\ \A i \in 1..Len(lateCalls) : lateCalls[i] # "Process: ten_vad_process"

\* C24 witness: vad.Process failed on a frame, segmentByVAD returned the error, and a
\* second Close and a Process on the closed Vad left the handle destroyed once.
C24_Witness ==
    /\ segPc = "returned" /\ segErr /\ f > 0
    /\ vadCreated = 1 /\ vadDestroyed = 1 /\ vadInstance = "nil"
    /\ lateCalls = <<"Close", "Process: instance closed">>

\* The chunks of the result whose sample range holds all samples of frame fr.
ChunksHolding(fr) ==
    { i \in 1..Len(segResult) :
        segResult[i].lo <= fr * hopSize /\ fr * hopSize + hopSize <= segResult[i].hi }

\* C26: a frame classified as speech lies in the sample range of exactly one of the
\* returned chunks.
C26_SpeechFrameInOneChunk ==
    (SegReturnedOk /\ tracked >= 0) => Cardinality(ChunksHolding(tracked)) = 1

\* C26 witness: two chunks were returned and the frame followed is the last frame of
\* the buffer, in a run that was still open when the frames ended; it lies in the
\* second chunk.
C26_Witness ==
    /\ SegReturnedOk /\ Len(segResult) = 2
    /\ tracked = totalFrames - 1 /\ inSpeech
    /\ ChunksHolding(tracked) = {2}

(***************************************************************************)
(* main: the chunk loop and the output                                     *)
(***************************************************************************)
\* Largest number of chunks of a modelled run.
MaxChunks == 2

\* Largest number of ASR segments delivered in a modelled run.
MaxDelivered == 3

\* First samples of the modelled chunks; each chunk is one second long.
ChunkStarts == {0, 24000, 48000}

\* The chunk lists of the modelled runs: never empty, in order of time.
ChunkLists ==
    { c \in UNION { [1..k -> {audioSegment(lo, lo + sampleRate, lo) : lo \in ChunkStarts}] :
                     k \in 1..MaxChunks } :
        \A i \in 1..(Len(c) - 1) : c[i].lo < c[i + 1].lo }

\* "abc", "ok"
AsrTexts == { <<97, 98, 99>>, <<111, 107>> }

\* Start and end of the modelled ASR segments, in milliseconds; the engine's times are
\* taken as they come, the last pair ending before it starts.
AsrTimes == { <<0, 1000>>, <<500, 1500>>, <<1000, 500>> }

\* The segments the ASR engine may hand to the callback, with times relative to the chunk.
AsrSegments ==
    { [Start |-> st[1] * Millisecond, End |-> st[2] * Millisecond, Text |-> t,
       NoSpeechProb |-> p, Tokens |-> <<90>>] :
        <<st, t, p>> \in AsrTimes \X AsrTexts \X {10, 80} }

\* time.Duration(chunk.startSec * float64(time.Second)), startSec being lo / sampleRate.
offset(chunk) == (chunk.startSecNum * Second) \div sampleRate

MainFrame == UNCHANGED <<segVars, dedupVars, filterVars, callVars>>

MainInit ==
    /\ mainPc = "loop"
    /\ mainErr = "none"
    /\ chunks \in ChunkLists
    /\ chunkIdx = 1
    /\ mainSegments = <<>>
    /\ written = <<>>
    /\ delivered = <<>>
    /\ SegIdle /\ DedupIdle /\ FilterIdle /\ CallIdle

\* model.NewContext fails: os.Exit(1).
NewContextFail ==
    /\ mainPc = "loop" /\ chunkIdx <= Len(chunks)
    /\ mainPc' = "exit"
    /\ mainErr' = "context"
    /\ UNCHANGED <<chunks, chunkIdx, mainSegments, written, delivered>>
    /\ MainFrame

\* ctx.SetLanguage fails: os.Exit(1).
SetLanguageFail ==
    /\ mainPc = "loop" /\ chunkIdx <= Len(chunks)
    /\ mainPc' = "exit"
    /\ mainErr' = "language"
    /\ UNCHANGED <<chunks, chunkIdx, mainSegments, written, delivered>>
    /\ MainFrame

\* The context of the chunk is created and configured; ctx.Process starts.
ProcessStart ==
    /\ mainPc = "loop" /\ chunkIdx <= Len(chunks)
    /\ mainPc' = "process"
    /\ UNCHANGED <<mainErr, chunks, chunkIdx, mainSegments, written, delivered>>
    /\ MainFrame

\* ctx.Process hands one segment to segmentCb.
SegmentCb ==
    /\ mainPc = "process" /\ Len(delivered) < MaxDelivered
    /\ \E segment \in AsrSegments :
         /\ mainSegments' = Append(mainSegments,
                transcriptSegment(formatDuration(segment.Start + offset(chunks[chunkIdx])),
                                  formatDuration(segment.End + offset(chunks[chunkIdx])),
                                  segment.Text))
         /\ delivered' = Append(delivered,
                [segment |-> segment, offset |-> offset(chunks[chunkIdx])])
    /\ UNCHANGED <<mainPc, mainErr, chunks, chunkIdx, written>>
    /\ MainFrame

\* ctx.Process returns nil: on to the next chunk.
ProcessOk ==
    /\ mainPc = "process"
    /\ mainPc' = "loop"
    /\ chunkIdx' = chunkIdx + 1
    /\ UNCHANGED <<mainErr, chunks, mainSegments, written, delivered>>
    /\ MainFrame

\* ProcessFail reporting the error and going on to the next chunk.
ProcessFail_SkipChunk ==
    /\ mainPc = "process"
    /\ mainPc' = "loop"
    /\ mainErr' = "process"
    /\ chunkIdx' = chunkIdx + 1
    /\ UNCHANGED <<chunks, mainSegments, written, delivered>>
    /\ MainFrame

\* ctx.Process returns an error: os.Exit(1).
ProcessFail ==
    /\ mainPc = "process"
    /\ mainPc' = "exit"
    /\ mainErr' = "process"
    /\ UNCHANGED <<chunks, chunkIdx, mainSegments, written, delivered>>
    /\ MainFrame

\* os.Create of the output file fails: os.Exit(1).
CreateOutputFail ==
    /\ mainPc = "loop" /\ chunkIdx > Len(chunks)
    /\ mainPc' = "exit"
    /\ mainErr' = "output"
    /\ UNCHANGED <<chunks, chunkIdx, mainSegments, written, delivered>>
    /\ MainFrame

\* After the last chunk every element of segments is written, in the chosen format.
WriteOutput ==
    /\ mainPc = "loop" /\ chunkIdx > Len(chunks)
    /\ written' = mainSegments
    /\ mainPc' = "done"
    /\ UNCHANGED <<mainErr, chunks, chunkIdx, mainSegments, delivered>>
    /\ MainFrame

MainNext ==
    \/ NewContextFail
    \/ SetLanguageFail
    \/ ProcessStart
    \/ SegmentCb
    \/ ProcessOk
    \/ ProcessFail
    \/ CreateOutputFail
    \/ WriteOutput

SpecMain == MainInit /\ [][MainNext]_vars

(***************************************************************************)
(* Properties of main                                                      *)
(***************************************************************************)
\* The transcript segment of a delivered ASR segment.
TranscriptOf(d) ==
    transcriptSegment(formatDuration(d.segment.Start + d.offset),
                      formatDuration(d.segment.End + d.offset),
                      d.segment.Text)

\* The delivered segments the filter keeps, as transcript segments, in delivery order.
RECURSIVE KeptTranscripts(_)
KeptTranscripts(ds) ==
    IF ds = <<>> THEN <<>>
    ELSE (IF shouldSkipSegment(Head(ds).segment) THEN <<>> ELSE << TranscriptOf(Head(ds)) >>)
         \o KeptTranscripts(Tail(ds))

\* C1: every segment written to the output comes from an ASR segment for which
\* shouldSkipSegment returned false, and is among the segments deduplicateSegments
\* returns for the kept ones.
C1_OutputFilteredAndDeduplicated ==
    mainPc = "done" =>
        \A i \in 1..Len(written) :
            /\ \E j \in 1..Len(delivered) :
                  /\ ~shouldSkipSegment(delivered[j].segment)
                  /\ TranscriptOf(delivered[j]) = written[i]
            /\ \E k \in 1..Len(deduplicateSegments(KeptTranscripts(delivered))) :
                  deduplicateSegments(KeptTranscripts(delivered))[k] = written[i]

\* A chunk failed: context creation, language setup or Process returned an error.
ChunkFailed == mainErr \in {"context", "language", "process"}

\* C12: after a failure on any chunk the run has exited with nothing written and takes
\* no further step (no later chunk is processed); the output is written only when
\* every chunk has been processed without error.
C12_ChunkFailureFailsRun ==
    /\ [](ChunkFailed => (mainPc = "exit" /\ written = <<>>))
    /\ [](mainPc = "done" => (mainErr = "none" /\ chunkIdx = Len(chunks) + 1))
    /\ [](written # <<>> => mainPc = "done")
    /\ [][ChunkFailed => UNCHANGED mainVars]_vars

\* C12 witness: the first chunk was processed and gave a segment, the second chunk's
\* Process failed, and the run exited with nothing written.
C12_Witness ==
    /\ mainPc = "exit" /\ mainErr = "process"
    /\ chunkIdx = 2 /\ Len(chunks) = 2
    /\ Len(mainSegments) >= 1
    /\ delivered[1].offset = offset(chunks[1])
    /\ written = <<>>

\* C13: every transcript segment built by segmentCb has end >= start, and both times
\* are at least 00:00:00.000.
C13_EndNotBeforeStart ==
    \A i \in 1..Len(mainSegments) :
        /\ parseDuration(mainSegments[i].Start) >= 0
        /\ parseDuration(mainSegments[i].End) >= parseDuration(mainSegments[i].Start)

====
